---- MODULE Spec2Model ----
(***************************************************************************)
(* Model of the job-posting pipeline documented in JobInsights/docs: the   *)
(* seniority classifier (docs/data-analysis/seniority-detection.md) and    *)
(* the deduplication pipeline (docs/data-cleaning/deduplication.md).       *)
(***************************************************************************)
EXTENDS Integers, Sequences, FiniteSets, TLC

VARIABLES
    \* ---- seniority classifier -------------------------------------------
    title,          \* job title: a sequence of lower-cased words
    contract_type,  \* the jobType (contract) field: one lower-cased word
    signals,        \* the detection buckets that fired
    career_level,   \* the resolved level ("NONE" until classified)
    is_ambiguous,   \* audit flag
    cpc,            \* position of the classifier: input / detected / classified
    \* ---- FuzzyDeduplicator._group_similar_jobs --------------------------
    n_jobs,         \* number of rows of the frame
    similar_pairs,  \* list of (index1, index2) pairs above the threshold
    pair_pos,       \* next element of similar_pairs the loop will union
    parent,         \* the union-find forest: parent[x], x in 0..n_jobs-1
    groups,         \* the returned list of groups
    gpc,            \* position of the grouping: union / done
    \* ---- complete_deduplication_pipeline --------------------------------
    input_df,       \* the frame handed to the pipeline
    has_date,       \* whether the frame has a posted_date column
    df,             \* the frame as the pipeline rebinds it
    fz_pairs,       \* similar_pairs of the fuzzy pass
    fz_groups,      \* duplicate_groups of the fuzzy pass
    fz_best,        \* per group, what _select_best_record returned
    stage,          \* start / exact / fuzzy / temporal / done / failed
    \* ---- add_clusters_to_dataframe / perform_kmeans_clustering ----------
    km_df,          \* the frame handed to add_clusters_to_dataframe
    km_k,           \* optimal_k, the number of clusters
    km_X,           \* job_embeddings: the embeddings of the clustered jobs
    km_centers,     \* the centers of the running Lloyd iteration
    km_labels,      \* the labels of the running Lloyd iteration
    km_labels_old,  \* the labels of the iteration before
    km_iter,        \* iterations done
    km_tie,         \* how this build orders equal distances: "first" / "last"
    km_out,         \* the returned frame: rows with their cluster label
    km_centers_df,  \* the returned centers_df: one row per cluster_id
    km_pc,          \* call / lloyd / strict / rerun / done / failed
    \* ---- one call of a function of the tagger or of the cleanup ---------
    call_args,      \* the arguments of the call
    call_result,    \* what the call returned
    call_pc,        \* called / returned
    \* ---- populate_database and a concurrent reader ----------------------
    db_batch,       \* jobs_df, keywords_df and relations_df handed to the call
    db_jobs,        \* committed rows of table jobs
    db_keywords,    \* committed rows of table keywords
    db_job_keywords,\* committed rows of table job_keywords
    db_clusters,    \* committed rows of table clusters
    db_tx,          \* rows the open transaction has written, not yet committed
    db_pc,          \* position of populate_database
    db_seen,        \* what the reader's last query returned
    \* ---- JobMarketDataProcessor.process_pipeline ------------------------
    run_pc,         \* the stage the run is in / returned / raised
    run_input,      \* per stage that has started: the stages its input went through
    run_count,      \* per stage: how many times it has been started
    run_elapsed,    \* wall-clock ticks the running stage has taken
    run_persisted,  \* the stage artifacts on disk
    run_starts      \* calls of process_pipeline so far

classifierVars == << title, contract_type, signals, career_level, is_ambiguous, cpc >>
groupVars == << n_jobs, similar_pairs, pair_pos, parent, groups, gpc >>
dedupVars == << input_df, has_date, df, fz_pairs, fz_groups, fz_best, stage >>
kmeansVars == << km_df, km_k, km_X, km_centers, km_labels, km_labels_old,
                 km_iter, km_tie, km_out, km_centers_df, km_pc >>
callVars == << call_args, call_result, call_pc >>
storeVars == << db_batch, db_jobs, db_keywords, db_job_keywords, db_clusters,
                db_tx, db_pc, db_seen >>
runVars == << run_pc, run_input, run_count, run_elapsed, run_persisted, run_starts >>
laterVars == << kmeansVars, callVars, storeVars, runVars >>
notKMeansVars == << classifierVars, groupVars, dedupVars, callVars, storeVars, runVars >>
notCallVars == << classifierVars, groupVars, dedupVars, kmeansVars, storeVars, runVars >>
notStoreVars == << classifierVars, groupVars, dedupVars, kmeansVars, callVars, runVars >>
notRunVars == << classifierVars, groupVars, dedupVars, kmeansVars, callVars, storeVars >>
vars == << classifierVars, groupVars, dedupVars, laterVars >>

\* A subsystem that a specification does not run stays in its idle state.
ClassifierIdle ==
    /\ title = << >>
    /\ contract_type = ""
    /\ signals = {}
    /\ career_level = "NONE"
    /\ is_ambiguous = FALSE
    /\ cpc = "idle"

GroupIdle ==
    /\ n_jobs = 0
    /\ similar_pairs = << >>
    /\ pair_pos = 1
    /\ parent = << >>
    /\ groups = << >>
    /\ gpc = "idle"

DedupIdle ==
    /\ input_df = << >>
    /\ has_date = FALSE
    /\ df = << >>
    /\ fz_pairs = << >>
    /\ fz_groups = << >>
    /\ fz_best = << >>
    /\ stage = "idle"

KMeansIdle ==
    /\ km_df = << >>
    /\ km_k = 0
    /\ km_X = << >>
    /\ km_centers = << >>
    /\ km_labels = << >>
    /\ km_labels_old = << >>
    /\ km_iter = 0
    /\ km_tie = "first"
    /\ km_out = << >>
    /\ km_centers_df = << >>
    /\ km_pc = "idle"

CallIdle ==
    /\ call_args = << >>
    /\ call_result = << >>
    /\ call_pc = "idle"

StoreIdle ==
    /\ db_batch = << >>
    /\ db_jobs = << >>
    /\ db_keywords = << >>
    /\ db_job_keywords = {}
    /\ db_clusters = {}
    /\ db_tx = << >>
    /\ db_pc = "idle"
    /\ db_seen = << >>

RunIdle ==
    /\ run_pc = "idle"
    /\ run_input = << >>
    /\ run_count = << >>
    /\ run_elapsed = 0
    /\ run_persisted = << >>
    /\ run_starts = 0

LaterIdle == KMeansIdle /\ CallIdle /\ StoreIdle /\ RunIdle
NotKMeansIdle == ClassifierIdle /\ GroupIdle /\ DedupIdle /\ CallIdle /\ StoreIdle /\ RunIdle
NotCallIdle == ClassifierIdle /\ GroupIdle /\ DedupIdle /\ KMeansIdle /\ StoreIdle /\ RunIdle
NotStoreIdle == ClassifierIdle /\ GroupIdle /\ DedupIdle /\ KMeansIdle /\ CallIdle /\ RunIdle
NotRunIdle == ClassifierIdle /\ GroupIdle /\ DedupIdle /\ KMeansIdle /\ CallIdle /\ StoreIdle

(***************************************************************************)
(*                       SENIORITY CLASSIFIER                              *)
(***************************************************************************)

\* Longest title (in words) the classifier is run on.
MaxTitleLen == 3

\* Words titles are drawn from: every kind of marker plus neutral words.
TitleWords ==
    { "director", "head", "of", "engineering", "product", "manager",
      "senior", "lead", "junior", "analyst", "intern" }

\* Contract types the inputs are drawn from: student contracts and regular ones.
ContractTypes == { "praktikum", "werkstudent", "ausbildung", "trainee", "permanent" }

Titles == UNION { [1..n -> TitleWords] : n \in 0..MaxTitleLen }

\* Keyword dictionaries (one row of the table each).
StudentKeywords ==
    { "praktikum", "student", "werkstudent", "trainee", "ausbildung",
      "bachelor", "master", "referendariat" }

ManagementKeywords ==
    { <<"head", "of">>, <<"director">>, <<"vp">>, <<"chief">>, <<"c-level">>,
      <<"teamlead">>, <<"leiter">> }

\* "Manager" counts only with a prefix that denotes personnel responsibility
\* ("Engineering Manager", "Senior Manager ..."); "Product Manager" does not.
ManagementFlags == { <<"engineering", "manager">>, <<"senior", "manager">> }

SeniorKeywords ==
    { <<"senior">>, <<"lead">>, <<"principal">>, <<"staff">>, <<"expert">>,
      <<"architect">> }

JuniorKeywords == { <<"junior">>, <<"entry">>, <<"graduate">>, <<"apprentice">> }

\* A phrase occurs in a title as a run of consecutive words.
ContainsPhrase(t, phrase) ==
    \E i \in 1..(Len(t) - Len(phrase) + 1) :
        SubSeq(t, i, i + Len(phrase) - 1) = phrase

MatchesAny(t, phrases) == \E p \in phrases : ContainsPhrase(t, p)

\* The four detection buckets.
StudentSignal(c) == c \in StudentKeywords
ManagementSignal(t) == MatchesAny(t, ManagementKeywords \cup ManagementFlags)
SeniorSignal(t) == MatchesAny(t, SeniorKeywords)
JuniorSignal(t) == MatchesAny(t, JuniorKeywords)

\* Signals are detected across the contract field and the title field.  The
\* student/intern bucket raises ENTRY (the snippet's "contractual status").
DetectSignals(t, c) ==
    (IF StudentSignal(c) THEN {"ENTRY"} ELSE {})
    \cup (IF ManagementSignal(t) THEN {"MANAGEMENT"} ELSE {})
    \cup (IF SeniorSignal(t) THEN {"SENIOR"} ELSE {})
    \cup (IF JuniorSignal(t) THEN {"JUNIOR"} ELSE {})

\* Mutant: responsibility is tested before the contract.
classify_ManagementFirst(sig) ==
    IF "MANAGEMENT" \in sig THEN "MANAGEMENT"
    ELSE IF "ENTRY" \in sig THEN "ENTRY"
    ELSE IF "SENIOR" \in sig THEN "SENIOR"
    ELSE "MID"

\* Mutant: experience is tested before responsibility and contract.
classify_SeniorFirst(sig) ==
    IF "SENIOR" \in sig THEN "SENIOR"
    ELSE IF "ENTRY" \in sig THEN "ENTRY"
    ELSE IF "MANAGEMENT" \in sig THEN "MANAGEMENT"
    ELSE "MID"

\* etl/pipeline/classifier.py, as printed.
classify(sig) ==
    IF "ENTRY" \in sig THEN "ENTRY"
    ELSE IF "MANAGEMENT" \in sig THEN "MANAGEMENT"
    ELSE IF "SENIOR" \in sig THEN "SENIOR"
    ELSE "MID"

\* Mutant: the flag is raised only when three buckets fire.
IsAmbiguous_Three(sig) == Cardinality(sig) > 2

\* is_ambiguous: the job triggered multiple detection buckets before resolution.
IsAmbiguous(sig) == Cardinality(sig) > 1

InitClassifier ==
    /\ title \in Titles
    /\ contract_type \in ContractTypes
    /\ signals = {}
    /\ career_level = "NONE"
    /\ is_ambiguous = FALSE
    /\ cpc = "input"
    /\ GroupIdle
    /\ DedupIdle
    /\ LaterIdle

Detect ==
    /\ cpc = "input"
    /\ signals' = DetectSignals(title, contract_type)
    /\ cpc' = "detected"
    /\ UNCHANGED << title, contract_type, career_level, is_ambiguous >>
    /\ UNCHANGED << groupVars, dedupVars, laterVars >>

Classify ==
    /\ cpc = "detected"
    /\ is_ambiguous' = IsAmbiguous(signals)
    /\ career_level' = classify(signals)
    /\ cpc' = "classified"
    /\ UNCHANGED << title, contract_type, signals >>
    /\ UNCHANGED << groupVars, dedupVars, laterVars >>

NextClassifier == Detect \/ Classify

SpecClassifier == InitClassifier /\ [][NextClassifier]_vars

(***************************************************************************)
(*          FUZZY GROUPING: FuzzyDeduplicator._group_similar_jobs          *)
(***************************************************************************)

\* Largest frame and longest pair list the grouping is run on.
MaxGroupJobs == 4
MaxPairs == 3

\* The root find(x) returns.
RECURSIVE Root(_, _)
Root(p, x) == IF p[x] = x THEN x ELSE Root(p, p[x])

\* The nodes find(x) rewrites: x and its ancestors below the root.
RECURSIVE PathNodes(_, _)
PathNodes(p, x) == IF p[x] = x THEN {} ELSE {x} \cup PathNodes(p, p[x])

\* The forest after find(x): path compression.
find(p, x) ==
    [ y \in DOMAIN p |-> IF y \in PathNodes(p, x) THEN Root(p, x) ELSE p[y] ]

\* Mutant: the nodes themselves are linked, not their roots.
union_LinkNodes(p, x, y) == [ p EXCEPT ![x] = y ]

\* The forest after union(x, y).
union(p, x, y) ==
    LET p1 == find(p, x)
        px == Root(p, x)
        p2 == find(p1, y)
        py == Root(p1, y)
    IN  IF px # py THEN [ p2 EXCEPT ![px] = py ] ELSE p2

\* The elements of a set of integers in ascending order.
RECURSIVE SortedSeq(_)
SortedSeq(S) ==
    IF S = {} THEN << >>
    ELSE LET m == CHOOSE x \in S : \A y \in S : x <= y
         IN  << m >> \o SortedSeq(S \ {m})

\* "Group by parent": groups are keyed by root in order of first appearance
\* (so by smallest member), members ascending; singletons are dropped.
GroupByParent(p, n) ==
    LET members(i) == { j \in 0..(n - 1) : Root(p, j) = Root(p, i) }
        firsts == { i \in 0..(n - 1) :
                      /\ \A j \in members(i) : i <= j
                      /\ Cardinality(members(i)) > 1 }
        order == SortedSeq(firsts)
    IN  [ k \in 1..Len(order) |-> SortedSeq(members(order[k])) ]

\* The forest after the whole union loop over a pair list.
RECURSIVE UnionAll(_, _, _)
UnionAll(p, pairs, k) ==
    IF k > Len(pairs) THEN p
    ELSE UnionAll(union(p, pairs[k][1], pairs[k][2]), pairs, k + 1)

\* _group_similar_jobs(similar_pairs, n_jobs) as one function.
GroupSimilarJobs(pairs, n) ==
    GroupByParent(UnionAll([ x \in 0..(n - 1) |-> x ], pairs, 1), n)

IndexPairs(n) == { pr \in (0..(n - 1)) \X (0..(n - 1)) : pr[1] < pr[2] }

\* Lists of distinct pairs, in any order.
PairLists(n) ==
    UNION { { l \in [1..k -> IndexPairs(n)] :
                \A a, b \in 1..k : a # b => l[a] # l[b] } : k \in 0..MaxPairs }

InitGroup ==
    /\ n_jobs \in 1..MaxGroupJobs
    /\ similar_pairs \in PairLists(n_jobs)
    /\ pair_pos = 1
    /\ parent = [ x \in 0..(n_jobs - 1) |-> x ]
    /\ groups = << >>
    /\ gpc = "union"
    /\ ClassifierIdle
    /\ DedupIdle
    /\ LaterIdle

\* One iteration of "for idx1, idx2, _ in similar_pairs: union(idx1, idx2)".
UnionNext ==
    /\ gpc = "union"
    /\ pair_pos <= Len(similar_pairs)
    /\ parent' = union(parent, similar_pairs[pair_pos][1], similar_pairs[pair_pos][2])
    /\ pair_pos' = pair_pos + 1
    /\ UNCHANGED << n_jobs, similar_pairs, groups, gpc >>
    /\ UNCHANGED << classifierVars, dedupVars, laterVars >>

\* The loop is over: group by parent and return the groups of size > 1.
CollectGroups ==
    /\ gpc = "union"
    /\ pair_pos > Len(similar_pairs)
    /\ groups' = GroupByParent(parent, n_jobs)
    /\ parent' = [ x \in DOMAIN parent |-> Root(parent, x) ]
    /\ gpc' = "done"
    /\ UNCHANGED << n_jobs, similar_pairs, pair_pos >>
    /\ UNCHANGED << classifierVars, dedupVars, laterVars >>

NextGroup == UnionNext \/ CollectGroups

SpecGroup == InitGroup /\ [][NextGroup]_vars

(***************************************************************************)
(*                 DATA FRAMES OF JOB RECORDS                              *)
(*                                                                         *)
(* A frame is a sequence of rows.  A row carries its index label idx (what  *)
(* df.index holds; positions and labels are 0-based as in pandas), the     *)
(* data columns, and job_id, the row's place in the pipeline's input,      *)
(* which is no column and only tells the rows apart.  Text cells are       *)
(* sequences of words as scraped, NaN being the empty sequence; a          *)
(* description is an opaque text with a length; posted_date is a day       *)
(* number, 0 for NaN/NaT.                                                  *)
(***************************************************************************)

\* Largest frame handed to the pipeline.
MaxJobs == 3

NaNText == << >>
NaNDesc == ""

InputTitles == { << "Data", "Scientist" >>, NaNText }
InputCompanies == { << "Acme", "GmbH" >> }
LongCompany == << "Acme", "Software", "Solutions", "GmbH" >>
InputLocations == { << "München" >>, << "Munich" >> }
InputDescriptions == { "d150", "d150_plus2" }
InputDates == { 0, 10, 20 }

\* Length in characters of a description ("150 words", and the same text
\* with two more sentences).
DescLen(d) ==
    CASE d = "d150" -> 950
      [] d = "d150_plus2" -> 1100
      [] OTHER -> 0

\* Rows the frames are drawn from: every titled row, and one untitled row
\* per location and company.
InputRows(withDate) ==
    [ title : InputTitles \ { NaNText }, company : InputCompanies,
      location : InputLocations, description : InputDescriptions,
      posted_date : IF withDate THEN InputDates ELSE {0} ]
    \cup
    [ title : InputTitles \cap { NaNText }, company : InputCompanies \cup { LongCompany },
      location : InputLocations, description : { "d150" },
      posted_date : IF withDate THEN { 10 } ELSE {0} ]

\* The frame of a list of rows, with the default RangeIndex.
RangeIndexed(f) ==
    [ k \in 1..Len(f) |->
        [ idx |-> k - 1, job_id |-> k - 1,
          title |-> f[k].title, company |-> f[k].company,
          location |-> f[k].location, description |-> f[k].description,
          posted_date |-> f[k].posted_date ] ]

Columns(withDate) ==
    { "title", "company", "location", "description" }
        \cup (IF withDate THEN { "posted_date" } ELSE {})

\* notna() of one cell.
NotNa(row, col) ==
    CASE col = "description" -> row.description # NaNDesc
      [] col = "posted_date" -> row.posted_date # 0
      [] OTHER -> row[col] # NaNText

\* Mutant: the selection of rows returns the frame whole.
Take_Whole(d, positions) == d

\* The rows at a set of 0-based positions, in ascending position order.
Take(d, positions) ==
    LET order == SortedSeq(positions)
    IN  [ k \in 1..Len(order) |-> d[order[k] + 1] ]

\* reset_index(drop=True)
ResetIndex(d) == [ k \in 1..Len(d) |-> [ d[k] EXCEPT !.idx = k - 1 ] ]

KeyOf(row, cols) == [ c \in cols |-> row[c] ]

\* Mutant: only a duplicate of the row right before it is dropped.
DropDuplicates_Adjacent(d, cols) ==
    Take(d, { p \in 0..(Len(d) - 1) :
                p = 0 \/ KeyOf(d[p], cols) # KeyOf(d[p + 1], cols) })

\* df.drop_duplicates(subset=cols, keep='first'): a row is dropped when an
\* earlier row has the same values in cols (NaN equal to NaN); labels stay.
DropDuplicates(d, cols) ==
    Take(d, { p \in 0..(Len(d) - 1) :
                \A q \in 0..(p - 1) : KeyOf(d[q + 1], cols) # KeyOf(d[p + 1], cols) })

\* remove_exact_duplicates(df, subset_columns); {} stands for None.
remove_exact_duplicates(d, subset_columns, withDate) ==
    IF subset_columns # {}
    THEN DropDuplicates(d, subset_columns)
    ELSE DropDuplicates(d, Columns(withDate))

(***************************************************************************)
(*                 FUZZY PASS: class FuzzyDeduplicator                     *)
(***************************************************************************)

\* word.lower() for the words of the inputs.
Lower(word) ==
    CASE word = "Data" -> "data"
      [] word = "Scientist" -> "scientist"
      [] word = "Acme" -> "acme"
      [] word = "GmbH" -> "gmbh"
      [] word = "Software" -> "software"
      [] word = "Solutions" -> "solutions"
      [] word = "München" -> "münchen"
      [] word = "Munich" -> "munich"
      [] OTHER -> word

\* str(cell).lower() as the analyzer tokenizes it: a NaN cell reads "nan".
CellWords(cell) ==
    IF cell = NaNText THEN << "nan" >>
    ELSE [ k \in 1..Len(cell) |-> Lower(cell[k]) ]

\* f"{title} {title} {company} {company} {location}"
FeatureText(row) ==
    CellWords(row.title) \o CellWords(row.title)
        \o CellWords(row.company) \o CellWords(row.company)
        \o CellWords(row.location)

create_similarity_features(d) == [ k \in 1..Len(d) |-> FeatureText(d[k]) ]

\* TfidfVectorizer(ngram_range=(1, 3), analyzer='word'): the word 1- to
\* 3-grams of a text.  None of the input words is an English stop word or
\* shorter than two characters, and the vocabulary of a frame of the sizes
\* checked stays below max_features=500, so nothing is cut from it.
NGrams(text) ==
    { SubSeq(text, i, i + k - 1) : << i, k >> \in
        { ik \in (1..Len(text)) \X (1..3) : ik[1] + ik[2] - 1 <= Len(text) } }

\* Term frequency: occurrences of an n-gram in a text.
TermCount(text, g) ==
    Cardinality({ i \in 1..(Len(text) - Len(g) + 1) :
                    SubSeq(text, i, i + Len(g) - 1) = g })

\* Smoothed idf, ln((1 + n) / (1 + df)) + 1, in thousandths, for a corpus
\* of n documents and a term found in docf of them.
IdfMilli(n, docf) ==
    LET num == 1 + n
        den == 1 + docf
    IN  CASE num = den -> 1000
          [] << num, den >> = << 3, 2 >> -> 1405
          [] << num, den >> = << 4, 2 >> -> 1693
          [] << num, den >> = << 4, 3 >> -> 1288
          [] << num, den >> = << 5, 2 >> -> 1916
          [] << num, den >> = << 5, 3 >> -> 1511
          [] << num, den >> = << 5, 4 >> -> 1223
          [] << num, den >> = << 6, 2 >> -> 2099
          [] << num, den >> = << 6, 3 >> -> 1693
          [] << num, den >> = << 6, 4 >> -> 1405
          [] << num, den >> = << 6, 5 >> -> 1182

RECURSIVE SumOver(_, _)
SumOver(S, f) ==
    IF S = {} THEN 0
    ELSE LET x == CHOOSE y \in S : TRUE
         IN  f[x] + SumOver(S \ {x}, f)

\* Largest r with r * r <= x, between lo and hi.
RECURSIVE ISqrt(_, _, _)
ISqrt(x, lo, hi) ==
    IF lo >= hi THEN lo
    ELSE LET mid == (lo + hi + 1) \div 2
         IN  IF mid * mid <= x THEN ISqrt(x, mid, hi) ELSE ISqrt(x, lo, mid - 1)

\* The tf-idf rows of the fitted matrix, before normalisation:
\* weight of a term = count * idf (thousandths).
TfidfWeights(features) ==
    LET n == Len(features)
        vocabulary == UNION { NGrams(features[k]) : k \in 1..n }
        docfreq == [ g \in vocabulary |->
                       Cardinality({ k \in 1..n : g \in NGrams(features[k]) }) ]
    IN  [ k \in 1..n |->
            [ g \in vocabulary |->
                TermCount(features[k], g) * IdfMilli(n, docfreq[g]) ] ]

\* similarity_matrix[i, j] >= 0.85 on the l2-normalised rows:
\* dot / (|wi| |wj|) >= 17/20.
AboveThreshold(wi, wj) ==
    LET terms == DOMAIN wi
        dot == SumOver(terms, [ g \in terms |-> wi[g] * wj[g] ])
        ni == SumOver(terms, [ g \in terms |-> wi[g] * wi[g] ])
        nj == SumOver(terms, [ g \in terms |-> wj[g] * wj[g] ])
    IN  20 * dot >= 17 * ISqrt(ni, 0, 46340) * ISqrt(nj, 0, 46340)

\* The body of find_similar_jobs on the feature texts: the pairs (i, j),
\* i < j, at or above the threshold, in the order of the two nested loops.
SimilarPairs(features) ==
    LET n == Len(features)
        w == TfidfWeights(features)
        hits == { pr \in IndexPairs(n) : AboveThreshold(w[pr[1] + 1], w[pr[2] + 1]) }
        order == SortedSeq({ pr[1] * n + pr[2] : pr \in hits })
    IN  [ k \in 1..Len(order) |-> << order[k] \div n, order[k] % n >> ]

\* The fit depends on the feature texts alone, so the result for every list
\* of texts is worked out once and looked up afterwards.
FeatureTexts == { FeatureText(r) : r \in InputRows(FALSE) }

FittedCorpora == UNION { [1..n -> FeatureTexts] : n \in 1..MaxJobs }

SimilarPairsOfCorpora == { << c, SimilarPairs(c) >> : c \in FittedCorpora }

find_similar_jobs(d) ==
    LET features == create_similarity_features(d)
    IN  IF features \in FittedCorpora
        THEN (CHOOSE e \in SimilarPairsOfCorpora : e[1] = features)[2]
        ELSE SimilarPairs(features)

\* completeness_score: candidates.notna().sum(axis=1) of one row.
CompletenessScore(row, withDate) ==
    Cardinality({ c \in Columns(withDate) : NotNa(row, c) })

\* completeness_score + (desc_lengths / 100).astype(int) of one row.
TotalScore(row, withDate) ==
    CompletenessScore(row, withDate) + (DescLen(row.description) \div 100)

\* df.index.get_loc(label): the position of the row labelled label.
GetLoc(d, label) == CHOOSE p \in 0..(Len(d) - 1) : d[p + 1].idx = label

\* Mutant: the position of the best row is returned as it is.
select_best_record_ByPosition(d, indices, withDate) ==
    LET score(k) == TotalScore(d[indices[k] + 1], withDate)
        best == CHOOSE k \in 1..Len(indices) :
                    /\ \A m \in 1..Len(indices) : score(m) <= score(k)
                    /\ \A m \in 1..(k - 1) : score(m) < score(k)
    IN  indices[best]

\* _select_best_record: idxmax() gives the label of the first row of the
\* group with the highest score, get_loc its position in df, and that
\* position is then used as a subscript of the group list; -1 stands for
\* the IndexError of a subscript past the end of the list.
select_best_record(d, indices, withDate) ==
    LET score(k) == TotalScore(d[indices[k] + 1], withDate)
        best == CHOOSE k \in 1..Len(indices) :
                    /\ \A m \in 1..Len(indices) : score(m) <= score(k)
                    /\ \A m \in 1..(k - 1) : score(m) < score(k)
        best_local_idx == d[indices[best] + 1].idx
        loc == GetLoc(d, best_local_idx)
    IN  IF loc < Len(indices) THEN indices[loc + 1] ELSE -1

\* What _select_best_record returns for each group, in group order.
BestOfGroups(d, grps, withDate) ==
    [ k \in 1..Len(grps) |-> select_best_record(d, grps[k], withDate) ]

\* remove_fuzzy_duplicates, once the groups and their best records are
\* known and no IndexError was raised: every group member but the best is
\* dropped and the index is reset.
KeepAfterFuzzy(d, grps, best) ==
    LET dropped == UNION { { grps[k][m] : m \in 1..Len(grps[k]) } \ { best[k] } :
                             k \in 1..Len(grps) }
    IN  ResetIndex(Take(d, (0..(Len(d) - 1)) \ dropped))

(***************************************************************************)
(*      TEMPORAL PASS AND THE COMPLETE DEDUPLICATION PIPELINE              *)
(***************************************************************************)

\* pd.to_datetime(errors='coerce') of one cell: a day number stays, NaN and
\* text that is no date (a value below 0) become NaT.
ToDatetime(v) == IF v > 0 THEN v ELSE 0

CoerceDates(d) ==
    [ k \in 1..Len(d) |-> [ d[k] EXCEPT !.posted_date = ToDatetime(@) ] ]

\* Mutant: rows without a date are sorted first (na_position='first').
SortOrders_NaTFirst(d) ==
    LET n == Len(d)
    IN  { o \in [1..n -> 0..(n - 1)] :
            /\ \A a, b \in 1..n : a # b => o[a] # o[b]
            /\ \A a, b \in 1..n : a < b =>
                  LET da == d[o[a] + 1].posted_date
                      db == d[o[b] + 1].posted_date
                  IN  IF db = 0 THEN da = 0 /\ o[a] < o[b]
                      ELSE da = 0 \/ da >= db }

\* The row orders sort_values(date_column, ascending=False) can produce:
\* later dates first, NaT rows last in their original order; the default
\* sort is not stable, so rows with equal dates come in any order.
SortOrders(d) ==
    LET n == Len(d)
    IN  { o \in [1..n -> 0..(n - 1)] :
            /\ \A a, b \in 1..n : a # b => o[a] # o[b]
            /\ \A a, b \in 1..n : a < b =>
                  LET da == d[o[a] + 1].posted_date
                      db == d[o[b] + 1].posted_date
                  IN  IF da = 0 THEN db = 0 /\ o[a] < o[b]
                      ELSE db = 0 \/ da >= db }

\* sort_index(): rows in ascending label order.
SortIndex(d) ==
    LET labels == SortedSeq({ d[k].idx : k \in 1..Len(d) })
    IN  [ k \in 1..Len(d) |-> d[GetLoc(d, labels[k]) + 1] ]

TemporalKey == { "title", "company", "location" }

\* Mutant: the frame is sorted oldest first (ascending=True).
TemporalOutcomes_Ascending(d) ==
    LET c == CoerceDates(d)
        n == Len(c)
        orders == { o \in [1..n -> 0..(n - 1)] :
                      /\ \A a, b \in 1..n : a # b => o[a] # o[b]
                      /\ \A a, b \in 1..n : a < b =>
                            LET da == c[o[a] + 1].posted_date
                                db == c[o[b] + 1].posted_date
                            IN  IF da = 0 THEN db = 0 /\ o[a] < o[b]
                                ELSE db = 0 \/ da <= db }
    IN  { SortIndex(DropDuplicates([ k \in 1..n |-> c[o[k] + 1] ], TemporalKey)) :
            o \in orders }

\* handle_temporal_duplicates on a frame that has the date column: the
\* frames it can return.
TemporalOutcomes(d) ==
    LET c == CoerceDates(d)
    IN  { SortIndex(DropDuplicates([ k \in 1..Len(c) |-> c[o[k] + 1] ], TemporalKey)) :
            o \in SortOrders(c) }

InitDedup ==
    /\ has_date \in BOOLEAN
    /\ \E n \in 1..MaxJobs :
          \E f \in [1..n -> InputRows(has_date)] : input_df = RangeIndexed(f)
    /\ df = input_df
    /\ fz_pairs = << >>
    /\ fz_groups = << >>
    /\ fz_best = << >>
    /\ stage = "start"
    /\ ClassifierIdle
    /\ GroupIdle
    /\ LaterIdle

\* Step 1: remove_exact_duplicates(df, subset_columns=[title, company, location])
ExactStep ==
    /\ stage = "start"
    /\ df' = remove_exact_duplicates(df, { "title", "company", "location" }, has_date)
    /\ stage' = "exact"
    /\ UNCHANGED << input_df, has_date, fz_pairs, fz_groups, fz_best >>
    /\ UNCHANGED << classifierVars, groupVars, laterVars >>

\* Step 2: FuzzyDeduplicator(0.85).remove_fuzzy_duplicates(df), returning.
FuzzyStep ==
    /\ stage = "exact"
    /\ LET pairs == find_similar_jobs(df)
           grps == GroupSimilarJobs(pairs, Len(df))
           best == BestOfGroups(df, grps, has_date)
       IN  /\ \A k \in 1..Len(grps) : best[k] # -1
           /\ fz_pairs' = pairs
           /\ fz_groups' = grps
           /\ fz_best' = best
           /\ df' = IF pairs = << >> THEN df ELSE KeepAfterFuzzy(df, grps, best)
    /\ stage' = "fuzzy"
    /\ UNCHANGED << input_df, has_date >>
    /\ UNCHANGED << classifierVars, groupVars, laterVars >>

\* Step 2, raising: _select_best_record subscripts a group list past its
\* end and the IndexError leaves the pipeline.
FuzzyStepIndexError ==
    /\ stage = "exact"
    /\ LET pairs == find_similar_jobs(df)
           grps == GroupSimilarJobs(pairs, Len(df))
           best == BestOfGroups(df, grps, has_date)
       IN  /\ \E k \in 1..Len(grps) : best[k] = -1
           /\ fz_pairs' = pairs
           /\ fz_groups' = grps
           /\ fz_best' = best
    /\ stage' = "failed"
    /\ UNCHANGED << input_df, has_date, df >>
    /\ UNCHANGED << classifierVars, groupVars, laterVars >>

\* Step 3: handle_temporal_duplicates(df, 'posted_date')
TemporalStep ==
    /\ stage = "fuzzy"
    /\ IF has_date THEN df' \in TemporalOutcomes(df) ELSE df' = df
    /\ stage' = "temporal"
    /\ UNCHANGED << input_df, has_date, fz_pairs, fz_groups, fz_best >>
    /\ UNCHANGED << classifierVars, groupVars, laterVars >>

\* Step 4: remove_exact_duplicates(df) on all columns, then
\* df.reset_index(drop=True).
FinalStep ==
    /\ stage = "temporal"
    /\ df' = ResetIndex(remove_exact_duplicates(df, {}, has_date))
    /\ stage' = "done"
    /\ UNCHANGED << input_df, has_date, fz_pairs, fz_groups, fz_best >>
    /\ UNCHANGED << classifierVars, groupVars, laterVars >>

\* Rows handed to handle_temporal_duplicates on its own: the rows of the
\* pipeline's batches, and rows whose posted_date is text that is no date
\* (a value below 0).
TemporalRows(withDate) ==
    InputRows(withDate)
    \cup
    [ title : InputTitles \ { NaNText }, company : InputCompanies,
      location : InputLocations, description : { "d150" },
      posted_date : IF withDate THEN { -1 } ELSE {0} ]

\* handle_temporal_duplicates(df, 'posted_date') called on a frame of its own.
InitTemporal ==
    /\ has_date \in BOOLEAN
    /\ \E n \in 1..MaxJobs :
          \E f \in [1..n -> TemporalRows(has_date)] : input_df = RangeIndexed(f)
    /\ df = input_df
    /\ fz_pairs = << >>
    /\ fz_groups = << >>
    /\ fz_best = << >>
    /\ stage = "temporal_call"
    /\ ClassifierIdle
    /\ GroupIdle
    /\ LaterIdle

TemporalReturn ==
    /\ stage = "temporal_call"
    /\ IF has_date THEN df' \in TemporalOutcomes(df) ELSE df' = df
    /\ stage' = "temporal_returned"
    /\ UNCHANGED << input_df, has_date, fz_pairs, fz_groups, fz_best >>
    /\ UNCHANGED << classifierVars, groupVars, laterVars >>

NextTemporal == TemporalReturn

SpecTemporal == InitTemporal /\ [][NextTemporal]_vars

NextDedup == ExactStep \/ FuzzyStep \/ FuzzyStepIndexError \/ TemporalStep \/ FinalStep

SpecDedup == InitDedup /\ [][NextDedup]_vars

(***************************************************************************)
(*        LOCATION STANDARDISATION: class LocationStandardizer             *)
(***************************************************************************)

\* self.city_mappings
city_mappings(city_name) ==
    CASE city_name = << "München" >> -> << "Munich" >>
      [] city_name = << "Köln" >> -> << "Cologne" >>
      [] city_name = << "Düsseldorf" >> -> << "Duesseldorf" >>
      [] city_name = << "Nürnberg" >> -> << "Nuremberg" >>
      [] city_name = << "Münster" >> -> << "Muenster" >>
      [] city_name = << "Frankfurt", "am", "Main" >> -> << "Frankfurt" >>
      [] city_name = << "Hannover" >> -> << "Hanover" >>
      [] OTHER -> city_name

\* self.german_states
german_states ==
    { << "Baden-Württemberg" >>, << "Bayern" >>, << "Berlin" >>, << "Brandenburg" >>,
      << "Bremen" >>, << "Hamburg" >>, << "Hessen" >>, << "Mecklenburg-Vorpommern" >>,
      << "Niedersachsen" >>, << "Nordrhein-Westfalen" >>, << "Rheinland-Pfalz" >>,
      << "Saarland" >>, << "Sachsen" >>, << "Sachsen-Anhalt" >>,
      << "Schleswig-Holstein" >>, << "Thüringen" >> }

\* The characters re.split(r'[(),/]', ...) splits at; in a location text
\* each stands as a token of its own between the words.
LocationSeparators == { "(", ")", ",", "/" }

\* re.sub(r'\s*(stadt|dorf|hausen|heim)$', '', word, flags=re.IGNORECASE)
\* of the last word of a name.
RemoveSuffixOfWord(word) ==
    CASE word = "Düsseldorf" -> "Düssel"
      [] word = "Neustadt" -> "Neu"
      [] word = "Mannheim" -> "Mann"
      [] OTHER -> word

\* any(indicator in word.lower() for indicator in ['stadt', 'dorf',
\* 'hausen', 'heim'])
HasCityIndicator(word) == RemoveSuffixOfWord(word) # word

\* len(word) <= 2 or word.isdigit(), of a one-word part.
ShortOrDigits(word) == word \in { "DE", "12" }

\* _standardize_city_name: the suffix is removed first, the mapping is
\* looked up with what is left.
standardize_city_name(city_name) ==
    city_mappings([ city_name EXCEPT ![Len(city_name)] = RemoveSuffixOfWord(@) ])

\* parts = re.split(r'[(),/]', location_text), stripped, empty ones dropped:
\* the parts from token i on, cur being the words of the part being read.
RECURSIVE SplitParts(_, _, _)
SplitParts(text, i, cur) ==
    IF i > Len(text)
    THEN IF cur = << >> THEN << >> ELSE << cur >>
    ELSE IF text[i] \in LocationSeparators
         THEN (IF cur = << >> THEN << >> ELSE << cur >>) \o SplitParts(text, i + 1, << >>)
         ELSE SplitParts(text, i + 1, Append(cur, text[i]))

\* The loop over the parts: a later part overwrites what an earlier one set.
RECURSIVE IdentifyComponents(_, _, _)
IdentifyComponents(parts, i, result) ==
    IF i > Len(parts) THEN result
    ELSE LET part == parts[i]
         IN  IdentifyComponents(parts, i + 1,
                IF part \in german_states
                THEN [ result EXCEPT !.state = part ]
                ELSE IF \E k \in 1..Len(part) : HasCityIndicator(part[k])
                THEN [ result EXCEPT !.city = standardize_city_name(part) ]
                ELSE IF Len(part) > 1 \/ ~ShortOrDigits(part[1])
                THEN [ result EXCEPT !.city = standardize_city_name(part) ]
                ELSE result)

\* standardize_location(location_text); None is the empty text.
standardize_location(location_text) ==
    IdentifyComponents(
        IF location_text = NaNText THEN << >> ELSE SplitParts(location_text, 1, << >>),
        1,
        [ city |-> NaNText, state |-> NaNText, country |-> << "Germany" >> ])

\* standardize_location(location_text)['city']
standardize_location_city(location_text) == standardize_location(location_text).city

(***************************************************************************)
(*                  CLAIMS ABOUT THE CLASSIFIER                            *)
(***************************************************************************)

Levels == { "ENTRY", "MID", "SENIOR", "MANAGEMENT" }

\* The documented rules 1-4, stated on the input (not on the signal set).
RuleMatches(r, t, c) ==
    CASE r = 1 -> c \in { "werkstudent", "praktikum", "ausbildung", "trainee",
                          "student", "bachelor", "master", "referendariat" }
      [] r = 2 -> ManagementSignal(t)
      [] r = 3 -> SeniorSignal(t)
      [] r = 4 -> JuniorSignal(t)

\* The outcome of the lowest-numbered matching rule among rules 1-5.
LowestRuleOutcome(t, c) ==
    IF RuleMatches(1, t, c) THEN "ENTRY"
    ELSE IF RuleMatches(2, t, c) THEN "MANAGEMENT"
    ELSE IF RuleMatches(3, t, c) THEN "SENIOR"
    ELSE IF RuleMatches(4, t, c) THEN "ENTRY"
    ELSE "MID"

RuleMatchCount(t, c) == Cardinality({ r \in 1..4 : RuleMatches(r, t, c) })

\* C1: whenever contract_type is a student/intern/apprenticeship contract
\* (Werkstudent, Praktikum, Ausbildung, Trainee) the result is ENTRY for every
\* title, also one that carries management, senior or junior markers.
C1_ContractOverridesTitle ==
    (cpc = "classified"
        /\ contract_type \in { "werkstudent", "praktikum", "ausbildung", "trainee" })
    => career_level = "ENTRY"

\* C1 witness: "Director of ... Intern" listed as Praktikum was classified ENTRY.
C1_Witness ==
    /\ cpc = "classified"
    /\ contract_type = "praktikum"
    /\ title = << "director", "of", "intern" >>
    /\ "MANAGEMENT" \in signals
    /\ career_level = "ENTRY"

\* C2: with a non-student contract, a title matching both a management marker
\* and a senior marker is classified MANAGEMENT, never SENIOR.
C2_ManagementBeatsSenior ==
    (cpc = "classified" /\ ~RuleMatches(1, title, contract_type)
        /\ ManagementSignal(title) /\ SeniorSignal(title))
    => career_level = "MANAGEMENT"

\* C2 witness: "Senior Engineering Manager" on a permanent contract.
C2_Witness ==
    /\ cpc = "classified"
    /\ contract_type = "permanent"
    /\ title = << "senior", "engineering", "manager" >>
    /\ signals = { "MANAGEMENT", "SENIOR" }
    /\ career_level = "MANAGEMENT"

\* C3 (as claimed): the outcome always equals the outcome of the
\* lowest-numbered matching rule among rules 1-5.
C3_LowestRuleWins ==
    cpc = "classified" => career_level = LowestRuleOutcome(title, contract_type)

\* C4 (as claimed): exactly one level of the four is assigned, and it is MID
\* exactly when none of rules 1-4 matches.
C4_MidIffNoRule ==
    cpc = "classified" =>
        /\ career_level \in Levels
        /\ (career_level = "MID" <=> RuleMatchCount(title, contract_type) = 0)

PairSet == { similar_pairs[k] : k \in 1..Len(similar_pairs) }

\* The records reachable from a set of records along candidate pairs.
RECURSIVE ReachableFrom(_)
ReachableFrom(S) ==
    LET T == S \cup { y \in 0..(n_jobs - 1) :
                        \E x \in S : << x, y >> \in PairSet \/ << y, x >> \in PairSet }
    IN  IF T = S THEN S ELSE ReachableFrom(T)

GroupSets == { { groups[k][m] : m \in 1..Len(groups[k]) } : k \in 1..Len(groups) }

\* C8: fuzzy grouping is the transitive closure of the candidate-pair
\* relation: two records are in one DuplicateGroup iff a chain of candidate
\* pairs connects them, whatever the order in which the pairs are unioned.
C8_GroupsAreTransitiveClosure ==
    gpc = "done" =>
        /\ \A i, j \in 0..(n_jobs - 1) :
              i # j => ((\E g \in GroupSets : i \in g /\ j \in g)
                            <=> j \in ReachableFrom({i}))
        /\ \A g \in GroupSets : \A i \in g : g = ReachableFrom({i})

\* C8 witness: A~B and B~C were unioned (C first), A~C is no candidate pair,
\* and A, B, C form one group.
C8_Witness ==
    /\ gpc = "done"
    /\ similar_pairs = << << 1, 2 >>, << 0, 1 >> >>
    /\ groups = << << 0, 1, 2 >> >>

(***************************************************************************)
(*             CLAIMS ABOUT THE DEDUPLICATION PIPELINE                     *)
(***************************************************************************)

JobIds == 0..(Len(input_df) - 1)

InputRow(j) == input_df[j + 1]

\* The input records identical to record j on (title, company, location,
\* description).
IdenticalTo(j) ==
    { i \in JobIds :
        KeyOf(InputRow(i), { "title", "company", "location", "description" })
            = KeyOf(InputRow(j), { "title", "company", "location", "description" }) }

\* How many records of a set of input records the current frame holds.
Present(S) == Cardinality({ k \in 1..Len(df) : df[k].job_id \in S })

FuzzyInput ==
    remove_exact_duplicates(input_df, { "title", "company", "location" }, has_date)

\* C7 (as claimed): in every DuplicateGroup of the fuzzy pass the record
\* selected as survivor has at least as many non-null fields as every other
\* member of the group.
C7_SurvivorMostComplete ==
    stage = "fuzzy" =>
        \A k \in 1..Len(fz_groups) : \A m \in 1..Len(fz_groups[k]) :
            CompletenessScore(FuzzyInput[fz_best[k] + 1], has_date)
                >= CompletenessScore(FuzzyInput[fz_groups[k][m] + 1], has_date)

\* C9: the temporal pass keeps, of the records sharing (title, company,
\* location), exactly one; when their dates differ it is one with the
\* latest posted_date; records with a unique key are all kept.
SameKey(j) ==
    { i \in JobIds : KeyOf(InputRow(i), TemporalKey) = KeyOf(InputRow(j), TemporalKey) }

LatestDate(S) ==
    CHOOSE d \in { ToDatetime(InputRow(i).posted_date) : i \in S } :
        \A i \in S : ToDatetime(InputRow(i).posted_date) <= d

C9_TemporalKeepsLatest ==
    (stage = "temporal_returned" /\ has_date) =>
        \A j \in JobIds :
            /\ Present(SameKey(j)) = 1
            /\ \A k \in 1..Len(df) :
                  df[k].job_id \in SameKey(j) =>
                      /\ df[k].posted_date = LatestDate(SameKey(j))
                      /\ KeyOf(df[k], TemporalKey) = KeyOf(InputRow(j), TemporalKey)

\* C9 witness: a repost with a later date follows the original posting, a
\* third record has a key of its own; the repost and the third record stay.
C9_Witness ==
    /\ stage = "temporal_returned"
    /\ has_date
    /\ Len(input_df) = 3
    /\ SameKey(0) = { 0, 1 }
    /\ InputRow(0).posted_date = 10
    /\ InputRow(1).posted_date = 20
    /\ Len(df) = 2
    /\ df[1].job_id = 1
    /\ df[2].job_id = 2

\* The two near-duplicate raw records of the end-to-end scenario.
RecordA ==
    [ title |-> << "Data", "Scientist" >>, company |-> << "Acme", "GmbH" >>,
      location |-> << "München" >>, description |-> "d150", posted_date |-> 10 ]

RecordB ==
    [ title |-> << "Data", "Scientist" >>, company |-> << "Acme", "GmbH" >>,
      location |-> << "Munich" >>, description |-> "d150_plus2", posted_date |-> 20 ]

\* C10 (as claimed): given records A and B the pipeline outputs exactly one
\* record, it is B, and the city of both inputs is normalized to the same
\* spelling.
C10_EndToEndScenario ==
    (stage = "done" /\ has_date /\ input_df = RangeIndexed(<< RecordA, RecordB >>))
    =>  /\ Len(df) = 1
        /\ df[1].job_id = 1
        /\ standardize_location_city(RecordA.location)
              = standardize_location_city(RecordB.location)

(***************************************************************************)
(*   CLUSTERING: add_clusters_to_dataframe / perform_kmeans_clustering     *)
(*                                                                         *)
(* An embedding is a point on a line, NoEmbedding for a job whose emb_0 is *)
(* NaN.  A center is a sum s of points with their number w: the point s/w. *)
(* KMeans(...).fit_predict is Lloyd's iteration started on k-means++       *)
(* centers; of its n_init runs the model follows any one.                  *)
(***************************************************************************)

MaxPoints == 4
MaxCoord == 4
MaxClusters == 3

min_k == 3
max_iter == 300

NoEmbedding == -1

Abs(x) == IF x < 0 THEN -x ELSE x

\* Frames of jobs, each with its job_id and its emb_0 column; the jobs come
\* in the order of their embeddings, those without one first.
ClusterFrames ==
    UNION { { [ i \in 1..n |-> [ job_id |-> i - 1, emb |-> f[i] ] ]
                : f \in { h \in [ 1..n -> { NoEmbedding } \cup 0..MaxCoord ] :
                            \A i \in 1..(n - 1) : h[i] <= h[i + 1] } }
            : n \in min_k..MaxPoints }

\* df[df['emb_0'].notna()]
JobsWithEmbeddings(d) == SelectSeq(d, LAMBDA row : row.emb # NoEmbedding)

\* The distance of point p to center c is at most that of point q to center e.
DistLE(p, c, q, e) == Abs(p * c.w - c.s) * e.w <= Abs(q * e.w - e.s) * c.w

\* k-means++: every further center is a point away from the centers chosen
\* so far, as long as there is one.
InitCenters(X, k) ==
    { c \in [ 1..k -> 1..Len(X) ] :
        \A j \in 2..k :
            \/ \A i \in 1..(j - 1) : X[c[j]] # X[c[i]]
            \/ \A q \in 1..Len(X) : \E i \in 1..(j - 1) : X[q] = X[c[i]] }

CenterAt(x) == [ s |-> x, w |-> 1 ]

\* The label of a point under the mutated E-step: the farthest center.
Nearest_Farthest(p, centers) ==
    (CHOOSE j \in 1..Len(centers) :
        \A i \in 1..Len(centers) : DistLE(p, centers[i], p, centers[j])) - 1

\* argmin of the distances of point p to the centers: the label of p.
Nearest(p, centers) ==
    (CHOOSE j \in 1..Len(centers) :
        /\ \A i \in 1..Len(centers) : DistLE(p, centers[j], p, centers[i])
        /\ \A i \in 1..(j - 1) : ~DistLE(p, centers[i], p, centers[j])) - 1

\* E-step of one Lloyd iteration.
EStep(X, centers) == [ i \in 1..Len(X) |-> Nearest(X[i], centers) ]

Members(labels, j) == { i \in 1..Len(labels) : labels[i] = j }

SumPoints(X, S) == SumOver(S, [ i \in S |-> X[i] ])

\* Point i is farther from its center than point q; np.argpartition orders
\* equal distances in a way the build fixes.
Farther(X, labels, centers, tie, i, q) ==
    IF DistLE(X[i], centers[labels[i] + 1], X[q], centers[labels[q] + 1])
    THEN /\ DistLE(X[q], centers[labels[q] + 1], X[i], centers[labels[i] + 1])
         /\ IF tie = "first" THEN i < q ELSE i > q
    ELSE TRUE

\* The ways to re-seed the empty clusters: each gets one of the points that
\* are farthest from their own center.
Relocations(X, labels, centers, tie) ==
    LET empty == { j \in 0..(Len(centers) - 1) : Members(labels, j) = {} }
        far   == { F \in SUBSET (1..Len(X)) :
                     /\ Cardinality(F) = Cardinality(empty)
                     /\ \A i \in F : \A q \in (1..Len(X)) \ F :
                           Farther(X, labels, centers, tie, i, q) }
    IN  UNION { { g \in [ empty -> F ] : \A a, b \in empty : g[a] = g[b] => a = b }
                : F \in far }

\* M-step of one Lloyd iteration with the re-seeding g of the empty clusters.
\* A cluster that loses all its points to the re-seeding keeps the zero sum
\* and is not averaged.
MStep(X, labels, centers, g) ==
    LET moved == { g[j] : j \in DOMAIN g }
    IN  [ c \in 1..Len(centers) |->
            IF (c - 1) \in DOMAIN g
            THEN CenterAt(X[g[c - 1]])
            ELSE LET stay == Members(labels, c - 1) \ moved
                 IN  IF stay = {}
                     THEN CenterAt(0)
                     ELSE [ s |-> SumPoints(X, stay), w |-> Cardinality(stay) ] ]

\* The center shift of an iteration is within tol.
SameCenters(c, e) == \A j \in 1..Len(c) : c[j].s * e[j].w = e[j].s * c[j].w

InitKMeans ==
    /\ km_df \in ClusterFrames
    /\ km_k \in min_k..MaxClusters
    /\ km_X = << >>
    /\ km_centers = << >>
    /\ km_labels = << >>
    /\ km_labels_old = << >>
    /\ km_iter = 0
    /\ km_tie \in { "first", "last" }
    /\ km_out = << >>
    /\ km_centers_df = << >>
    /\ km_pc = "call"
    /\ NotKMeansIdle

\* add_clusters_to_dataframe up to the start of KMeans.fit: the jobs with
\* an embedding are selected and the first centers are drawn.
KMeansStart ==
    /\ km_pc = "call"
    /\ Len(JobsWithEmbeddings(km_df)) >= km_k
    /\ km_X' = [ i \in 1..Len(JobsWithEmbeddings(km_df)) |->
                    JobsWithEmbeddings(km_df)[i].emb ]
    /\ \E c \in InitCenters(km_X', km_k) :
          km_centers' = [ j \in 1..km_k |-> CenterAt(km_X'[c[j]]) ]
    /\ km_labels' = [ i \in 1..Len(km_X') |-> -1 ]
    /\ km_labels_old' = [ i \in 1..Len(km_X') |-> -1 ]
    /\ km_pc' = "lloyd"
    /\ UNCHANGED << km_df, km_k, km_iter, km_tie, km_out, km_centers_df >>
    /\ UNCHANGED notKMeansVars

\* KMeans.fit raises ValueError when there are fewer samples than clusters.
KMeansTooFewSamples ==
    /\ km_pc = "call"
    /\ Len(JobsWithEmbeddings(km_df)) < km_k
    /\ km_pc' = "failed"
    /\ UNCHANGED << km_df, km_k, km_X, km_centers, km_labels, km_labels_old,
                    km_iter, km_tie, km_out, km_centers_df >>
    /\ UNCHANGED notKMeansVars

\* One Lloyd iteration: E-step on the current centers, M-step, then the
\* convergence tests (same labels as before; center shift within tol, which
\* on this grid means no shift) and the max_iter test.
LloydIteration ==
    /\ km_pc = "lloyd"
    /\ km_labels' = EStep(km_X, km_centers)
    /\ \E g \in Relocations(km_X, km_labels', km_centers, km_tie) :
          km_centers' = MStep(km_X, km_labels', km_centers, g)
    /\ km_iter' = km_iter + 1
    /\ km_labels_old' = km_labels'
    /\ km_pc' = IF km_labels' = km_labels_old THEN "strict"
                ELSE IF SameCenters(km_centers', km_centers) THEN "rerun"
                ELSE IF km_iter' >= max_iter THEN "rerun"
                ELSE "lloyd"
    /\ UNCHANGED << km_df, km_k, km_X, km_tie, km_out, km_centers_df >>
    /\ UNCHANGED notKMeansVars

\* The frame and centers_df that add_clusters_to_dataframe returns.
ClusteredFrame(d, labels) ==
    [ i \in 1..Len(JobsWithEmbeddings(d)) |->
        [ job_id |-> JobsWithEmbeddings(d)[i].job_id,
          emb |-> JobsWithEmbeddings(d)[i].emb,
          cluster |-> labels[i] ] ]

\* centers_df with cluster ids counted from one.
CentersFrame_FromOne(centers) ==
    [ j \in 1..Len(centers) |-> [ cluster_id |-> j, center |-> centers[j] ] ]

\* centers_df: the cluster centers with cluster_id = range(optimal_k).
CentersFrame(centers) ==
    [ j \in 1..Len(centers) |-> [ cluster_id |-> j - 1, center |-> centers[j] ] ]

\* silhouette_score and calinski_harabasz_score accept 2 to n_samples - 1
\* distinct labels and raise ValueError otherwise.
ScoresDefined(labels) ==
    LET n_labels == Cardinality({ labels[i] : i \in 1..Len(labels) })
    IN  2 <= n_labels /\ n_labels <= Len(labels) - 1

\* fit ended on equal labels: the labels of the last iteration are returned.
KMeansReturnStrict ==
    /\ km_pc = "strict"
    /\ ScoresDefined(km_labels)
    /\ km_out' = ClusteredFrame(km_df, km_labels)
    /\ km_centers_df' = CentersFrame(km_centers)
    /\ km_pc' = "done"
    /\ UNCHANGED << km_df, km_k, km_X, km_centers, km_labels, km_labels_old,
                    km_iter, km_tie >>
    /\ UNCHANGED notKMeansVars

\* fit ended otherwise: the E-step is run once more on the final centers.
KMeansReturnRerun ==
    /\ km_pc = "rerun"
    /\ km_labels' = EStep(km_X, km_centers)
    /\ ScoresDefined(km_labels')
    /\ km_out' = ClusteredFrame(km_df, km_labels')
    /\ km_centers_df' = CentersFrame(km_centers)
    /\ km_pc' = "done"
    /\ UNCHANGED << km_df, km_k, km_X, km_centers, km_labels_old, km_iter, km_tie >>
    /\ UNCHANGED notKMeansVars

\* fit_predict returned its labels and the quality evaluation of
\* perform_kmeans_clustering raises on them; nothing is returned.
KMeansScoreRaises ==
    /\ km_pc \in { "strict", "rerun" }
    /\ km_labels' = IF km_pc = "strict" THEN km_labels ELSE EStep(km_X, km_centers)
    /\ ~ScoresDefined(km_labels')
    /\ km_pc' = "failed"
    /\ UNCHANGED << km_df, km_k, km_X, km_centers, km_labels_old, km_iter, km_tie,
                    km_out, km_centers_df >>
    /\ UNCHANGED notKMeansVars

NextKMeans ==
    \/ KMeansStart
    \/ KMeansTooFewSamples
    \/ LloydIteration
    \/ KMeansReturnStrict
    \/ KMeansReturnRerun
    \/ KMeansScoreRaises

SpecKMeans == InitKMeans /\ [][NextKMeans]_vars

(***************************************************************************)
(*                     CLAIMS ABOUT THE CLUSTERING                         *)
(***************************************************************************)

CenterOf(cid) ==
    (CHOOSE j \in 1..Len(km_centers_df) : km_centers_df[j].cluster_id = cid)

\* every center has members behind it
CentersDefined ==
    \A j \in 1..Len(km_centers) : km_centers[j].w >= 1

\* C11: once clustering has converged, every clustered job's embedding is
\* at least as close to the center of its own cluster as to the center of
\* any other cluster.
C11_MembersNearestToOwnCentroid ==
    km_pc = "done" =>
        \A i \in 1..Len(km_out) : \A j \in 1..Len(km_centers_df) :
            DistLE(km_out[i].emb, km_centers_df[CenterOf(km_out[i].cluster)].center,
                   km_out[i].emb, km_centers_df[j].center)

\* C11 witness: the iteration moved the centers off the first ones, more
\* than one job shares a cluster and a job lies strictly nearer to its own
\* center than to another.
C11_Witness ==
    /\ km_pc = "done"
    /\ km_iter >= 2
    /\ \E i, q \in 1..Len(km_out) :
          i # q /\ km_out[i].cluster = km_out[q].cluster /\ km_out[i].emb # km_out[q].emb
    /\ \E i \in 1..Len(km_out) : \E j \in 1..Len(km_centers_df) :
          ~DistLE(km_out[i].emb, km_centers_df[j].center,
                  km_out[i].emb, km_centers_df[CenterOf(km_out[i].cluster)].center)

\* The rows of the returned frame that belong to job j.
ClusterRowsOf(j) == { i \in 1..Len(km_out) : km_out[i].job_id = j }

ClusterIds == { km_centers_df[j].cluster_id : j \in 1..Len(km_centers_df) }

\* The job has exactly one cluster and it is one of centers_df.
HasOneCluster(j) ==
    /\ Cardinality(ClusterRowsOf(j)) = 1
    /\ \A i \in ClusterRowsOf(j) : km_out[i].cluster \in ClusterIds
    /\ Cardinality({ c \in 1..Len(km_centers_df) :
                       \E i \in ClusterRowsOf(j) :
                           km_centers_df[c].cluster_id = km_out[i].cluster }) = 1

MaxWords == 2
MaxKeywords == 2

Str_Python == << "P", "y", "t", "h", "o", "n" >>
Str_Pythonic == Str_Python \o << "i", "c" >>
Str_Cpp == << "C", "+", "+" >>
Str_C == << "C" >>
Str_developer == << "d", "e", "v", "e", "l", "o", "p", "e", "r" >>

DescriptionWords == { Str_Python, Str_Pythonic, Str_Cpp, Str_C, Str_developer }
Keywords == { Str_Python, Str_Cpp, Str_developer }

\* pd.isna(job_description)
NaNDescription == << "NaN" >>

RECURSIVE JoinWords(_)
JoinWords(ws) ==
    IF Len(ws) = 1 THEN ws[1]
    ELSE ws[1] \o << " " >> \o JoinWords(Tail(ws))

Descriptions ==
    { NaNDescription } \cup
    UNION { { JoinWords(ws) : ws \in [ 1..n -> DescriptionWords ] } : n \in 1..MaxWords }

KeywordLists ==
    UNION { { ks \in [ 1..n -> Keywords ] : \A i, j \in 1..n : ks[i] = ks[j] => i = j }
            : n \in 1..MaxKeywords }

\* str.lower() of one character.
LowerChar(ch) ==
    CASE ch = "P" -> "p"
      [] ch = "C" -> "c"
      [] OTHER -> ch

\* str.lower()
LowerStr(str) == [ i \in 1..Len(str) |-> LowerChar(str[i]) ]

\* needle occurs in hay starting at position i.
OccursAt(needle, hay, i) ==
    /\ i + Len(needle) - 1 <= Len(hay)
    /\ \A k \in 1..Len(needle) : hay[i + k - 1] = needle[k]

\* needle in hay
IsSubstring(needle, hay) ==
    \E i \in 1..(Len(hay) + 1) : OccursAt(needle, hay, i)

\* str.split(): the set of the whitespace-separated words.
SplitWords(str) ==
    { SubSeq(str, q[1], q[2]) :
        q \in { r \in (1..Len(str)) \X (1..Len(str)) :
                  /\ r[1] <= r[2]
                  /\ \A k \in r[1]..r[2] : str[k] # " "
                  /\ (r[1] = 1 \/ str[r[1] - 1] = " ")
                  /\ (r[2] = Len(str) \/ str[r[2] + 1] = " ") } }

\* _fuzzy_match(keyword, text, threshold = 0.8)
fuzzy_match(keyword, text) ==
    LET keyword_words == SplitWords(LowerStr(keyword))
        text_words    == SplitWords(text)
        matches       == Cardinality({ kw_word \in keyword_words :
                            \E text_word \in text_words :
                                \/ IsSubstring(kw_word, text_word)
                                \/ IsSubstring(text_word, kw_word) })
    IN  \/ IsSubstring(LowerStr(keyword), text)
        \/ 10 * matches >= 8 * Cardinality(keyword_words)

\* tag_job_with_keywords(job_description, cluster_keywords)
tag_job_with_keywords(job_description, cluster_keywords) ==
    IF job_description = NaNDescription
    THEN << >>
    ELSE SelectSeq(cluster_keywords,
                   LAMBDA keyword : fuzzy_match(keyword, LowerStr(job_description)))

InitTagger ==
    /\ call_args \in { [ job_description |-> d, cluster_keywords |-> ks ] :
                          d \in Descriptions, ks \in KeywordLists }
    /\ call_result = << >>
    /\ call_pc = "called"
    /\ NotCallIdle

TagJob ==
    /\ call_pc = "called"
    /\ call_result' = tag_job_with_keywords(call_args.job_description,
                                             call_args.cluster_keywords)
    /\ call_pc' = "returned"
    /\ UNCHANGED call_args
    /\ UNCHANGED notCallVars

NextTagger == TagJob

SpecTagger == InitTagger /\ [][NextTagger]_vars

(***************************************************************************)
(*                    CLAIMS ABOUT THE KEYWORD TAGGING                     *)
(***************************************************************************)

IsWordChar(ch) == ch \notin { "+", " " }

\* A word boundary lies before position i of the string.
BoundaryBefore(str, i) ==
    (i > 1 /\ IsWordChar(str[i - 1])) # (i <= Len(str) /\ IsWordChar(str[i]))

\* The keyword occurs in the text between two word boundaries.
MatchesAtBoundaries(keyword, text) ==
    \E i \in 1..Len(text) :
        /\ OccursAt(keyword, text, i)
        /\ BoundaryBefore(text, i)
        /\ BoundaryBefore(text, i + Len(keyword))

\* What the boundary rule makes of a keyword and a description.
ShouldMatch(keyword, text) ==
    IF \A k \in 1..Len(keyword) : IsWordChar(keyword[k])
    THEN MatchesAtBoundaries(LowerStr(keyword), LowerStr(text))
    ELSE IsSubstring(LowerStr(keyword), LowerStr(text))

Tagged(keyword) == \E i \in 1..Len(call_result) : call_result[i] = keyword

\* C13 (as claimed): an alphanumeric keyword is tagged only where it stands
\* between word boundaries of the description ('Python' not on 'Pythonic'),
\* a keyword with non-word characters wherever it occurs ('C++' on
\* 'C++ developer').
C13_KeywordBoundaries ==
    (call_pc = "returned" /\ call_args.job_description # NaNDescription) =>
        \A k \in 1..Len(call_args.cluster_keywords) :
            Tagged(call_args.cluster_keywords[k])
                <=> ShouldMatch(call_args.cluster_keywords[k], call_args.job_description)

(***************************************************************************)
(*   CERTIFICATION FILTER: the secondary filter of the certification       *)
(*   cluster (docs/data-analysis/embeddings.md, Certification Filtering)   *)
(***************************************************************************)

MaxClusterTokens == 3

Str_siemens == << "s", "i", "e", "m", "e", "n", "s" >>
Str_SAP == << "S", "A", "P" >>
Str_IBM == << "I", "B", "M" >>
Str_DELL == << "D", "E", "L", "L" >>
Str_PMP == << "P", "M", "P" >>
Str_CISSP == << "C", "I", "S", "S", "P" >>
Str_IT == << "I", "T" >>
Str_MICROSOFT == << "M", "I", "C", "R", "O", "S", "O", "F", "T" >>
Str_Pmp == << "P", "m", "p" >>

\* Tokens a certification cluster may hold.
ClusterTokens ==
    { Str_siemens, Str_SAP, Str_IBM, Str_DELL, Str_PMP, Str_CISSP, Str_IT,
      Str_MICROSOFT, Str_Pmp }

\* The manual blacklist of company names.
CompanyBlocklist == { Str_SAP, Str_IBM, Str_DELL }

UpperChars == { "A", "B", "C", "D", "E", "F", "I", "L", "M", "O", "P", "R", "S", "T" }

\* The acronym rule without the company exclusion.
is_certification_keyword_NoBlocklist(token) ==
    /\ \A k \in 1..Len(token) : token[k] \in UpperChars
    /\ Len(token) >= 3
    /\ Len(token) <= 8

\* A token passes the filter: an uppercase acronym of 3 to 8 characters that
\* is not a blacklisted company name.
is_certification_keyword(token) ==
    /\ \A k \in 1..Len(token) : token[k] \in UpperChars
    /\ Len(token) >= 3
    /\ Len(token) <= 8
    /\ token \notin CompanyBlocklist

\* The certification keywords emitted from a candidate cluster.
filter_certifications(cluster_tokens) ==
    SelectSeq(cluster_tokens, is_certification_keyword)

InitCertFilter ==
    /\ call_args \in UNION { [ 1..n -> ClusterTokens ] : n \in 1..MaxClusterTokens }
    /\ call_result = << >>
    /\ call_pc = "called"
    /\ NotCallIdle

FilterCluster ==
    /\ call_pc = "called"
    /\ call_result' = filter_certifications(call_args)
    /\ call_pc' = "returned"
    /\ UNCHANGED call_args
    /\ UNCHANGED notCallVars

NextCertFilter == FilterCluster

SpecCertFilter == InitCertFilter /\ [][NextCertFilter]_vars

(***************************************************************************)
(*                 CLAIMS ABOUT THE CERTIFICATION FILTER                   *)
(***************************************************************************)

Emitted(token) == \E i \in 1..Len(call_result) : call_result[i] = token

InCluster(token) == \E i \in 1..Len(call_args) : call_args[i] = token

Digits == { "0", "1", "2", "3", "4", "5", "6", "7", "8", "9" }

DigitValue(ch) ==
    CASE ch = "0" -> 0 [] ch = "1" -> 1 [] ch = "2" -> 2 [] ch = "3" -> 3
      [] ch = "4" -> 4 [] ch = "5" -> 5 [] ch = "6" -> 6 [] ch = "7" -> 7
      [] ch = "8" -> 8 [] ch = "9" -> 9

NoMatch == << >>

CharAt(str, i) == IF i >= 1 /\ i <= Len(str) THEN str[i] ELSE ""

AllDigits(str, a, b) == \A k \in a..b : CharAt(str, k) \in Digits

\* The ends of (?:[.,]\d{3})* continued from a match that ends at e.
RECURSIVE ThousandsEnds(_, _)
ThousandsEnds(str, e) ==
    IF CharAt(str, e + 1) \in { ".", "," } /\ AllDigits(str, e + 2, e + 4)
    THEN { e } \cup ThousandsEnds(str, e + 4)
    ELSE { e }

\* The matches of \d{1,3}(?:[.,]\d{3})* that start at i, each as the number
\* d of leading digits and the end e of the match.
NumberMatches(str, i) ==
    UNION { { << d, e >> : e \in ThousandsEnds(str, i + d - 1) }
            : d \in { c \in 1..3 : AllDigits(str, i, i + c - 1) } }

\* The matches of \d{1,3} that start at i.
ShortNumberMatches(str, i) ==
    { << d, i + d - 1 >> : d \in { c \in 1..3 : AllDigits(str, i, i + c - 1) } }

\* The match a greedy regex engine tries first: most leading digits, then
\* most repetitions.
Preferred(ms) ==
    CHOOSE m \in ms :
        \A o \in ms : o[1] < m[1] \/ (o[1] = m[1] /\ o[2] <= m[2])

\* The number of a euro pattern has thousands groups, the number of a k
\* pattern has not.
MatchesOf(euro, str, i) ==
    IF euro THEN NumberMatches(str, i) ELSE ShortNumberMatches(str, i)

\* Where the number starts after an optional euro sign at position i.
AfterEuro(str, i) == IF CharAt(str, i) = "€" THEN i + 1 ELSE i

\* r'€?(N)-€?(N)' matched at start position s; N as given by MatchesOf.
\* The first group keeps its preferred match among those after which the
\* rest of the pattern matches.
RangeAt(str, s, euro, suffix) ==
    LET a     == IF euro THEN AfterEuro(str, s) ELSE s
        k     == Len(suffix)
        Rest(e) == IF euro THEN AfterEuro(str, e + k + 2) ELSE e + k + 2
        firsts == { m \in MatchesOf(euro, str, a) :
                      /\ SubSeq(str, m[2] + 1, m[2] + k) = suffix
                      /\ CharAt(str, m[2] + k + 1) = "-"
                      /\ \E n \in MatchesOf(euro, str, Rest(m[2])) :
                            SubSeq(str, n[2] + 1, n[2] + k) = suffix }
    IN  IF firsts = {} THEN NoMatch
        ELSE LET m == Preferred(firsts)
                 n == Preferred({ o \in MatchesOf(euro, str, Rest(m[2])) :
                                    SubSeq(str, o[2] + 1, o[2] + k) = suffix })
             IN  << SubSeq(str, a, m[2]), SubSeq(str, Rest(m[2]), n[2]) >>

\* r'€?(N)' with a suffix, matched at start position s.
SingleAt(str, s, euro, suffix) ==
    LET a  == IF euro THEN AfterEuro(str, s) ELSE s
        k  == Len(suffix)
        ms == { m \in MatchesOf(euro, str, a) : SubSeq(str, m[2] + 1, m[2] + k) = suffix }
    IN  IF ms = {} THEN NoMatch
        ELSE << SubSeq(str, a, Preferred(ms)[2]) >>

\* pattern.search: the match at the leftmost position where there is one.
RECURSIVE SearchFrom(_, _, _)
SearchFrom(str, s, pattern_name) ==
    IF s > Len(str) THEN NoMatch
    ELSE LET here ==
               CASE pattern_name = "range_euro" ->
                      RangeAt(str, s, TRUE, << >>)
                 [] pattern_name = "single_euro" ->
                      SingleAt(str, s, TRUE, << >>)
                 [] pattern_name = "range_k_euro" ->
                      RangeAt(str, s, FALSE, << "k" >>)
                 [] pattern_name = "single_k_euro" ->
                      SingleAt(str, s, FALSE, << "k" >>)
         IN  IF here # NoMatch THEN here ELSE SearchFrom(str, s + 1, pattern_name)

\* self.patterns in the order of the dict.
patterns == << "range_euro", "single_euro", "range_k_euro", "single_k_euro" >>

\* The value of a string of digits.
RECURSIVE DigitsValue(_)
DigitsValue(str) ==
    IF str = << >> THEN 0
    ELSE 10 * DigitsValue(SubSeq(str, 1, Len(str) - 1)) + DigitValue(str[Len(str)])

\* _parse_number(num_str, pattern_name): the separators "." are removed and
\* the value is multiplied by 1000 under a k pattern.  (The salary texts of
\* the model have no decimal comma.)
parse_number(num_str, pattern_name) ==
    LET num == DigitsValue(SelectSeq(num_str, LAMBDA ch : ch # "." /\ ch # " "))
    IN  IF pattern_name \in { "range_k_euro", "single_k_euro" }
        THEN num * 1000
        ELSE num

\* The result for an unparseable text.
NoSalary == [ min_salary |-> -1, max_salary |-> -1, currency |-> "None" ]

\* _parse_match(match, pattern_name)
parse_match(match, pattern_name) ==
    IF pattern_name \in { "range_euro", "range_k_euro" }
    THEN [ min_salary |-> parse_number(match[1], pattern_name),
           max_salary |-> parse_number(match[2], pattern_name),
           currency |-> "EUR" ]
    ELSE [ min_salary |-> parse_number(match[1], pattern_name),
           max_salary |-> parse_number(match[1], pattern_name),
           currency |-> "EUR" ]

\* The loop of standardize_salary from the p-th pattern on.
RECURSIVE TryPatterns(_, _)
TryPatterns(salary_text, p) ==
    IF p > Len(patterns) THEN NoSalary
    ELSE IF SearchFrom(salary_text, 1, patterns[p]) # NoMatch
         THEN parse_match(SearchFrom(salary_text, 1, patterns[p]), patterns[p])
         ELSE TryPatterns(salary_text, p + 1)

\* str.strip()
RECURSIVE Strip(_)
Strip(str) ==
    IF str = << >> THEN str
    ELSE IF Head(str) = " " THEN Strip(Tail(str))
    ELSE IF str[Len(str)] = " " THEN Strip(SubSeq(str, 1, Len(str) - 1))
    ELSE str

\* pd.isna(salary_text)
NaNSalary == << "NaN" >>

\* standardize_salary(salary_text)
standardize_salary(salary_text) ==
    IF salary_text = NaNSalary \/ salary_text = << >>
    THEN NoSalary
    ELSE TryPatterns(Strip(salary_text), 1)

SalaryNumbers ==
    { << "4", "5" >>, << "6", "5" >>,
      << "4", "5", ".", "0", "0", "0" >>, << "6", "5", ".", "0", "0", "0" >>,
      << "4", "5", "0", "0", "0" >> }

\* one bound of a salary text: an optional euro sign, a number, an optional k
SalaryBounds ==
    { e \o n \o k : e \in { << >>, << "€" >> }, n \in SalaryNumbers,
                    k \in { << >>, << "k" >> } }

Str_Competitive == << "C", "o", "m", "p", "e", "t", "i", "t", "i", "v", "e" >>

SalaryTexts ==
    { NaNSalary, << >>, Str_Competitive }
    \cup SalaryBounds
    \cup { a \o << "-" >> \o b : a \in SalaryBounds, b \in SalaryBounds }
    \cup { a \o << " ", "-", " " >> \o b : a \in SalaryBounds, b \in { << "6", "5" >> } }

InitSalary ==
    /\ call_args \in SalaryTexts
    /\ call_result = << >>
    /\ call_pc = "called"
    /\ NotCallIdle

StandardizeSalary ==
    /\ call_pc = "called"
    /\ call_result' = standardize_salary(call_args)
    /\ call_pc' = "returned"
    /\ UNCHANGED call_args
    /\ UNCHANGED notCallVars

NextSalary == StandardizeSalary

SpecSalary == InitSalary /\ [][NextSalary]_vars

(***************************************************************************)
(*                 CLAIMS ABOUT THE SALARY STANDARDISATION                 *)
(***************************************************************************)

Text_45k_65k == << "4", "5", "k", "-", "6", "5", "k" >>

\* C16 (as claimed): 'Xk-Yk' is parsed to salary_min = 1000 * X and
\* salary_max = 1000 * Y; '45k-65k' gives 45000 and 65000.
C16_KShorthandRange ==
    call_pc = "returned" =>
        \A x, y \in { << "4", "5" >>, << "6", "5" >> } :
            call_args = x \o << "k", "-" >> \o y \o << "k" >> =>
                /\ call_result.min_salary = 1000 * DigitsValue(x)
                /\ call_result.max_salary = 1000 * DigitsValue(y)

\* C17 (as claimed): whenever salary_min and salary_max are both present,
\* salary_min <= salary_max, also for a range with its larger bound first.
C17_MinAtMostMax ==
    (call_pc = "returned" /\ call_result # NoSalary) =>
        call_result.min_salary <= call_result.max_salary

(***************************************************************************)
(*     DATA CLEANUP: complete_data_cleanup_pipeline on one record          *)
(*                                                                         *)
(* A record is a function from its column names to its values.             *)
(***************************************************************************)

MaxPieces == 3

\* Pieces the raw title texts are put together from.
TextPieces ==
    { << "a" >>, << " " >>, << "@" >>, << "ü" >>,
      << "&", "a", "m", "p", ";" >>, << "l", "t", ";" >>, << "<", "b", ">" >> }

RECURSIVE Concat(_)
Concat(ps) == IF ps = << >> THEN << >> ELSE Head(ps) \o Concat(Tail(ps))

RawTexts ==
    { << "NaN" >> } \cup
    UNION { { Concat(ps) : ps \in [ 1..n -> TextPieces ] } : n \in 1..MaxPieces }

\* self.html_entities / html.unescape: the entities of the modelled texts.
HtmlEntities ==
    { << << "&", "a", "m", "p", ";" >>, << "&" >> >>,
      << << "&", "l", "t", ";" >>, << "<" >> >>,
      << << "&", "g", "t", ";" >>, << ">" >> >> }

\* html.unescape(text): one pass from left to right.
RECURSIVE HtmlUnescape(_)
HtmlUnescape(text) ==
    IF text = << >> THEN << >>
    ELSE IF \E en \in HtmlEntities : OccursAt(en[1], text, 1)
         THEN LET en == CHOOSE x \in HtmlEntities : OccursAt(x[1], text, 1)
              IN  en[2] \o HtmlUnescape(SubSeq(text, Len(en[1]) + 1, Len(text)))
         ELSE << Head(text) >> \o HtmlUnescape(Tail(text))

\* re.sub(r'<[^>]+>', '', text)
RECURSIVE RemoveTags(_)
RemoveTags(text) ==
    IF text = << >> THEN << >>
    ELSE IF /\ Head(text) = "<"
            /\ \E e \in 3..Len(text) :
                  text[e] = ">" /\ \A k \in 2..(e - 1) : text[k] # ">"
         THEN LET e == CHOOSE x \in 3..Len(text) :
                          text[x] = ">" /\ \A k \in 2..(x - 1) : text[k] # ">"
              IN  RemoveTags(SubSeq(text, e + 1, Len(text)))
         ELSE << Head(text) >> \o RemoveTags(Tail(text))

\* unicodedata.normalize('NFKD', text).encode('ascii', 'ignore').decode('ascii')
RECURSIVE ToAscii(_)
ToAscii(text) ==
    IF text = << >> THEN << >>
    ELSE (CASE Head(text) = "ü" -> << "u" >>
            [] Head(text) = "€" -> << >>
            [] OTHER -> << Head(text) >>) \o ToAscii(Tail(text))

\* re.sub(r'\s+', ' ', text)
RECURSIVE CollapseWhitespace(_)
CollapseWhitespace(text) ==
    IF Len(text) < 2 THEN text
    ELSE IF text[1] = " " /\ text[2] = " "
         THEN CollapseWhitespace(Tail(text))
         ELSE << Head(text) >> \o CollapseWhitespace(Tail(text))

\* the characters re.sub(r'[^\w\s.,!?-]', '', text) removes
RemovedPunctuation == { "@", "&", ";", "<", ">", "+", "€" }

\* TextCleaner.clean_text(text)
clean_text(text) ==
    IF text = << "NaN" >> \/ text = << >>
    THEN << >>
    ELSE SelectSeq(Strip(CollapseWhitespace(ToAscii(RemoveTags(HtmlUnescape(text))))),
                   LAMBDA ch : ch \notin RemovedPunctuation)

\* str.title(): the first letter of every word in upper case, the others in
\* lower case.
UpperChar(ch) ==
    CASE ch = "a" -> "A" [] ch = "b" -> "B" [] ch = "u" -> "U"
      [] ch = "l" -> "L" [] ch = "t" -> "T" [] ch = "m" -> "M" [] ch = "p" -> "P"
      [] OTHER -> ch

LowerLetter(ch) ==
    CASE ch = "A" -> "a" [] ch = "B" -> "b" [] ch = "U" -> "u"
      [] ch = "L" -> "l" [] ch = "T" -> "t" [] ch = "M" -> "m" [] ch = "P" -> "p"
      [] OTHER -> ch

IsLetter(ch) == UpperChar(ch) # ch \/ LowerLetter(ch) # ch

\* TextCleaner.normalize_case(text, 'title')
normalize_case_title(text) ==
    [ i \in 1..Len(text) |->
        IF i > 1 /\ IsLetter(text[i - 1])
        THEN LowerLetter(text[i])
        ELSE UpperChar(text[i]) ]

\* None / NaN in a numeric or timestamp column.
NoValue == -1

\* Raw posted_date texts; "no column" stands for a frame without the column.
DateTexts == { "NaN", "2024-01-10", "10. Januar 2024", "2 days ago", "soon" }

\* The clock readings datetime.now() may give.
Nows == { 100, 101 }

\* DateNormalizer.normalize_date(date_text) at clock reading now: what
\* dateutil makes of the modelled texts, then _parse_relative_date.
normalize_date(date_text, now) ==
    CASE date_text = "NaN" -> NoValue
      [] date_text = "2024-01-10" -> 10
      [] date_text = "10. Januar 2024" -> 10
      [] date_text = "2 days ago" -> now - 2
      [] OTHER -> NoValue

\* r with column col set to value v.
WithColumn(r, col, v) == (col :> v) @@ r

\* r with column col renamed.
RenameColumn(r, col, new) ==
    [ c \in (DOMAIN r \ { col }) \cup { new } |-> IF c = new THEN r[col] ELSE r[c] ]

\* apply_salary_standardization on one record; salary_avg is kept as the
\* sum it is half of.
apply_salary_standardization(r) ==
    LET x == standardize_salary(r["salary_range"])
    IN  WithColumn(WithColumn(WithColumn(WithColumn(r,
            "salary_min", IF x = NoSalary THEN NoValue ELSE x.min_salary),
            "salary_max", IF x = NoSalary THEN NoValue ELSE x.max_salary),
            "salary_currency", x.currency),
            "salary_avg_doubled",
                IF x = NoSalary THEN NoValue ELSE x.min_salary + x.max_salary)

\* apply_date_normalization(df, ['posted_date']) on one record, when the
\* column exists: the normalized column is added and the raw one renamed.
apply_date_normalization(r, now) ==
    IF "posted_date" \in DOMAIN r
    THEN RenameColumn(
             WithColumn(r, "posted_date_normalized", normalize_date(r["posted_date"], now)),
             "posted_date", "posted_date_original")
    ELSE r

\* apply_location_standardization on one record.
apply_location_standardization(r) ==
    LET location_data == standardize_location(r["location"])
    IN  WithColumn(WithColumn(WithColumn(r,
            "city", location_data.city),
            "state", location_data.state),
            "country", location_data.country)

\* apply_text_cleaning that writes the cleaned title over the raw one.
apply_text_cleaning_InPlace(r) ==
    WithColumn(WithColumn(WithColumn(r,
        "title", clean_text(r["title"])),
        "title_cleaned", clean_text(r["title"])),
        "title_normalized", normalize_case_title(clean_text(r["title"])))

\* apply_text_cleaning(df, ['title']) on one record.
apply_text_cleaning(r) ==
    WithColumn(WithColumn(r,
        "title_cleaned", clean_text(r["title"])),
        "title_normalized", normalize_case_title(clean_text(r["title"])))

\* complete_data_cleanup_pipeline on one record at clock reading now.
complete_data_cleanup_pipeline(r, now) ==
    apply_text_cleaning(
        apply_location_standardization(
            apply_date_normalization(
                apply_salary_standardization(r), now)))

CleanupSalaryTexts ==
    { NaNSalary, << "4", "5", ".", "0", "0", "0", "-", "6", "5", ".", "0", "0", "0" >> }

CleanupLocations == { << "München" >>, NaNText }

\* The raw records: with or without a posted_date column.
RawRecords ==
    { [ salary_range |-> s, location |-> l, title |-> t ] :
        s \in CleanupSalaryTexts, l \in CleanupLocations, t \in RawTexts }
    \cup
    { [ salary_range |-> s, location |-> l, title |-> t, posted_date |-> d ] :
        s \in CleanupSalaryTexts, l \in CleanupLocations, t \in RawTexts,
        d \in DateTexts }

InitCleanup ==
    /\ call_args \in RawRecords
    /\ call_result = << >>
    /\ call_pc = "called"
    /\ NotCallIdle

\* clean_dataset = complete_data_cleanup_pipeline(deduplicated_dataset)
CleanupRaw ==
    /\ call_pc = "called"
    /\ \E now \in Nows :
          call_result' = << complete_data_cleanup_pipeline(call_args, now) >>
    /\ call_pc' = "once"
    /\ UNCHANGED call_args
    /\ UNCHANGED notCallVars

\* the pipeline applied to its own output, at the same or a later time
CleanupAgain ==
    /\ call_pc = "once"
    /\ \E now \in Nows :
          call_result' = Append(call_result,
                                complete_data_cleanup_pipeline(call_result[1], now))
    /\ call_pc' = "twice"
    /\ UNCHANGED call_args
    /\ UNCHANGED notCallVars

NextCleanup == CleanupRaw \/ CleanupAgain

SpecCleanup == InitCleanup /\ [][NextCleanup]_vars

(***************************************************************************)
(*                   CLAIMS ABOUT THE DATA CLEANUP                         *)
(***************************************************************************)

\* C15: normalizing an already normalized record changes nothing:
\* normalize(normalize(r)) = normalize(r).
C15_NormalizeIdempotent ==
    call_pc = "twice" => call_result[2] = call_result[1]

\* C15 witness: the cleanup ran twice on a record whose raw title is not
\* clean, whose cleaned title is not a fixed point of clean_text and whose
\* posted date is relative to the time of the call.
C15_Witness ==
    /\ call_pc = "twice"
    /\ "posted_date" \in DOMAIN call_args
    /\ call_args["posted_date"] = "2 days ago"
    /\ call_result[1]["title_cleaned"] # call_args["title"]
    /\ clean_text(call_result[1]["title_cleaned"]) # call_result[1]["title_cleaned"]
    /\ call_result[1]["salary_min"] = 45000
    /\ call_result[1]["city"] = << "Munich" >>

(***************************************************************************)
(* PERSISTENT STORE (docs/data-cleaning/database.md): populate_database    *)
(* writes one batch through JobMarketDatabase; every insert_* method opens *)
(* its own connection and commits on its own.  A reader on another         *)
(* connection sees the committed rows only (PostgreSQL READ COMMITTED).    *)
(***************************************************************************)
MaxBatchJobs == 2
MaxBatchKeywords == 2
MaxBatchRelations == 2

\* A NULL column value; job.get('cluster') of a job without a cluster.
SqlNull == NoValue

\* The 'cluster' column of the rows of jobs_df: NULL or a cluster label.
BatchClusterValues == { SqlNull, 0, 1 }

BatchKeywords == { "python", "sql" }

\* relations_df: rows (job_id, keyword_id).
BatchRelationRows == (1..MaxBatchJobs) \X (1..MaxBatchKeywords)

SeqsUpTo(S, n) == UNION { [1..m -> S] : m \in 1..n }

StoreBatches ==
    { [jobs_df |-> j, keywords_df |-> k, relations_df |-> r] :
        j \in SeqsUpTo(BatchClusterValues, MaxBatchJobs),
        k \in SeqsUpTo(BatchKeywords, MaxBatchKeywords),
        r \in { rs \in {<< >>} \cup SeqsUpTo(BatchRelationRows, MaxBatchRelations) :
                  \A a, b \in 1..Len(rs) : a < b => rs[a] # rs[b] } }

\* INSERT INTO jobs: job_id is SERIAL, cluster_id is job.get('cluster').
JobRows(jobs_df) ==
    [ i \in 1..Len(jobs_df) |-> [job_id |-> i, cluster_id |-> jobs_df[i]] ]

\* INSERT INTO keywords ... ON CONFLICT (keyword) DO NOTHING: the row whose
\* keyword is already there is skipped, and its SERIAL value is used up.
KeywordRows(keywords_df) ==
    LET kept == { i \in 1..Len(keywords_df) :
                    \A h \in 1..(i - 1) : keywords_df[h] # keywords_df[i] }
    IN  { [keyword_id |-> i, keyword |-> keywords_df[i], job_count |-> 0] : i \in kept }

\* job_keywords REFERENCES jobs(job_id) and keywords(keyword_id).
ForeignKeysHold(relation) ==
    /\ \E i \in 1..Len(db_jobs) : db_jobs[i].job_id = relation[1]
    /\ \E k \in db_keywords : k.keyword_id = relation[2]

\* UPDATE keywords SET job_count = (SELECT COUNT(*) FROM job_keywords ...).
WithJobCounts(keywords, job_keywords) ==
    { [k EXCEPT !.job_count =
          Cardinality({ jk \in job_keywords : jk[2] = k.keyword_id })] : k \in keywords }

\* What a query on another connection returns: the committed rows.
CommittedRows ==
    [jobs |-> db_jobs, keywords |-> db_keywords,
     job_keywords |-> db_job_keywords, clusters |-> db_clusters]

InitStore ==
    /\ db_batch \in StoreBatches
    /\ db_jobs = << >>
    /\ db_keywords = {}
    /\ db_job_keywords = {}
    /\ db_clusters = {}
    /\ db_tx = << >>
    /\ db_pc = "insert_jobs"
    /\ db_seen = [jobs |-> << >>, keywords |-> {}, job_keywords |-> {}, clusters |-> {}]
    /\ NotStoreIdle

\* insert_jobs_batch: execute_batch inside the open transaction.
InsertJobsExecute ==
    /\ db_pc = "insert_jobs"
    /\ db_tx' = JobRows(db_batch.jobs_df)
    /\ db_pc' = "jobs_tx"
    /\ UNCHANGED << db_batch, db_jobs, db_keywords, db_job_keywords, db_clusters, db_seen >>
    /\ UNCHANGED notStoreVars

\* insert_jobs_batch: conn.commit().
InsertJobsCommit ==
    /\ db_pc = "jobs_tx"
    /\ db_jobs' = db_tx
    /\ db_tx' = << >>
    /\ db_pc' = "insert_keywords"
    /\ UNCHANGED << db_batch, db_keywords, db_job_keywords, db_clusters, db_seen >>
    /\ UNCHANGED notStoreVars

\* insert_keywords_batch: execute_batch and the SELECT of the keyword map.
InsertKeywordsExecute ==
    /\ db_pc = "insert_keywords"
    /\ db_tx' = << KeywordRows(db_batch.keywords_df) >>
    /\ db_pc' = "keywords_tx"
    /\ UNCHANGED << db_batch, db_jobs, db_keywords, db_job_keywords, db_clusters, db_seen >>
    /\ UNCHANGED notStoreVars

\* insert_keywords_batch: conn.commit().
InsertKeywordsCommit ==
    /\ db_pc = "keywords_tx"
    /\ db_keywords' = db_tx[1]
    /\ db_tx' = << >>
    /\ db_pc' = "insert_relations"
    /\ UNCHANGED << db_batch, db_jobs, db_job_keywords, db_clusters, db_seen >>
    /\ UNCHANGED notStoreVars

\* insert_job_keyword_relations: execute_batch, every row's keys exist.
InsertRelationsExecute ==
    /\ db_pc = "insert_relations"
    /\ \A i \in 1..Len(db_batch.relations_df) : ForeignKeysHold(db_batch.relations_df[i])
    /\ db_tx' = db_batch.relations_df
    /\ db_pc' = "relations_tx"
    /\ UNCHANGED << db_batch, db_jobs, db_keywords, db_job_keywords, db_clusters, db_seen >>
    /\ UNCHANGED notStoreVars

\* insert_job_keyword_relations: a row breaks a foreign key; the statement
\* raises, the connection's context manager rolls the transaction back and
\* the exception leaves populate_database.
InsertRelationsRaise ==
    /\ db_pc = "insert_relations"
    /\ \E i \in 1..Len(db_batch.relations_df) : ~ForeignKeysHold(db_batch.relations_df[i])
    /\ db_tx' = << >>
    /\ db_pc' = "raised"
    /\ UNCHANGED << db_batch, db_jobs, db_keywords, db_job_keywords, db_clusters, db_seen >>
    /\ UNCHANGED notStoreVars

\* insert_job_keyword_relations: conn.commit().
InsertRelationsCommit ==
    /\ db_pc = "relations_tx"
    /\ db_job_keywords' = { db_tx[i] : i \in 1..Len(db_tx) }
    /\ db_tx' = << >>
    /\ db_pc' = "update_counts"
    /\ UNCHANGED << db_batch, db_jobs, db_keywords, db_clusters, db_seen >>
    /\ UNCHANGED notStoreVars

\* populate_database: the UPDATE of the keyword usage counts.
UpdateCountsExecute ==
    /\ db_pc = "update_counts"
    /\ db_tx' = << WithJobCounts(db_keywords, db_job_keywords) >>
    /\ db_pc' = "counts_tx"
    /\ UNCHANGED << db_batch, db_jobs, db_keywords, db_job_keywords, db_clusters, db_seen >>
    /\ UNCHANGED notStoreVars

\* populate_database: conn.commit() of the UPDATE; the call returns.
UpdateCountsCommit ==
    /\ db_pc = "counts_tx"
    /\ db_keywords' = db_tx[1]
    /\ db_tx' = << >>
    /\ db_pc' = "complete"
    /\ UNCHANGED << db_batch, db_jobs, db_job_keywords, db_clusters, db_seen >>
    /\ UNCHANGED notStoreVars

\* A concurrent reader runs a query at any moment.
ReaderQuery ==
    /\ db_seen # CommittedRows
    /\ db_seen' = CommittedRows
    /\ UNCHANGED << db_batch, db_jobs, db_keywords, db_job_keywords, db_clusters,
                    db_tx, db_pc >>
    /\ UNCHANGED notStoreVars

NextStore ==
    \/ InsertJobsExecute
    \/ InsertJobsCommit
    \/ InsertKeywordsExecute
    \/ InsertKeywordsCommit
    \/ InsertRelationsExecute
    \/ InsertRelationsRaise
    \/ InsertRelationsCommit
    \/ UpdateCountsExecute
    \/ UpdateCountsCommit
    \/ ReaderQuery

SpecStore == InitStore /\ [][NextStore]_vars

\* The reader saw nothing of the batch.
SeenNothing ==
    /\ db_seen.jobs = << >>
    /\ db_seen.job_keywords = {}
    /\ db_seen.clusters = {}

\* The reader saw the whole batch: its job rows, its join rows and a
\* Cluster row for every cluster label of its jobs.
SeenWholeBatch ==
    /\ Len(db_seen.jobs) = Len(db_batch.jobs_df)
    /\ db_seen.job_keywords =
          { db_batch.relations_df[i] : i \in 1..Len(db_batch.relations_df) }
    /\ \A i \in 1..Len(db_batch.jobs_df) :
          db_batch.jobs_df[i] # SqlNull => db_batch.jobs_df[i] \in db_seen.clusters

\* C18: store write atomicity.  Whatever a concurrent reader's query
\* returns, every job row in it with a non-null cluster_id has its Cluster
\* row in it, and the batch is in it as a whole or not at all.
C18_StoreWriteAtomic ==
    /\ \A i \in 1..Len(db_seen.jobs) :
          db_seen.jobs[i].cluster_id # SqlNull
              => db_seen.jobs[i].cluster_id \in db_seen.clusters
    /\ SeenNothing \/ SeenWholeBatch

(***************************************************************************)
(* PIPELINE RUN (docs/data-cleaning/intro.md): process_pipeline calls the  *)
(* stages one after the other and hands each stage's return value to the   *)
(* next in memory.                                                         *)
(***************************************************************************)
MaxTicks == 3
MaxStarts == 3

\* The calls of process_pipeline, in the order of its statements.
Stages ==
    << "combine_data_sources", "deduplicate_jobs", "clean_data",
       "generate_embeddings", "apply_clustering", "extract_keywords" >>

StageSet == { Stages[i] : i \in 1..Len(Stages) }

StageIndex(s) == CHOOSE i \in 1..Len(Stages) : Stages[i] = s

\* No stage has started or completed.
NoCounts == [ s \in StageSet |-> [started |-> 0, completed |-> 0] ]

Started(counts, s) == [counts EXCEPT ![s].started = @ + 1]

Completed(counts, s) == [counts EXCEPT ![s].completed = @ + 1]

\* process_pipeline(raw_data_path) is called: its first statement runs.
InitPipeline ==
    /\ run_pc = Stages[1]
    /\ run_input = (Stages[1] :> {})
    /\ run_count = Started(NoCounts, Stages[1])
    /\ run_elapsed = 0
    /\ run_persisted = << >>
    /\ run_starts = 1
    /\ NotRunIdle

\* Time passes while a stage runs; nothing in process_pipeline looks at it.
StageTick ==
    /\ run_pc \in StageSet
    /\ run_elapsed < MaxTicks
    /\ run_elapsed' = run_elapsed + 1
    /\ UNCHANGED << run_pc, run_input, run_count, run_persisted, run_starts >>
    /\ UNCHANGED notRunVars

\* A stage returns and the next statement calls the next stage on its
\* return value.
StageReturns ==
    /\ run_pc \in StageSet
    /\ StageIndex(run_pc) < Len(Stages)
    /\ LET next == Stages[StageIndex(run_pc) + 1]
       IN  /\ run_pc' = next
           /\ run_input' = (next :> (run_input[run_pc] \cup { run_pc })) @@ run_input
           /\ run_count' = Started(Completed(run_count, run_pc), next)
    /\ run_elapsed' = 0
    /\ UNCHANGED << run_persisted, run_starts >>
    /\ UNCHANGED notRunVars

\* extract_keywords returns and process_pipeline returns final_data.
PipelineReturns ==
    /\ run_pc = Stages[Len(Stages)]
    /\ run_pc' = "returned"
    /\ run_count' = Completed(run_count, run_pc)
    /\ run_elapsed' = 0
    /\ UNCHANGED << run_input, run_persisted, run_starts >>
    /\ UNCHANGED notRunVars

\* A stage raises; process_pipeline has no handler, the exception leaves it
\* and the values of its local variables are gone.
StageRaises ==
    /\ run_pc \in StageSet
    /\ run_pc' = "raised"
    /\ UNCHANGED << run_input, run_count, run_elapsed, run_persisted, run_starts >>
    /\ UNCHANGED notRunVars

\* The run is started again: process_pipeline begins with its first
\* statement.
PipelineRestart ==
    /\ run_pc = "raised"
    /\ run_starts < MaxStarts
    /\ run_pc' = Stages[1]
    /\ run_input' = (Stages[1] :> {})
    /\ run_count' = Started(run_count, Stages[1])
    /\ run_elapsed' = 0
    /\ run_starts' = run_starts + 1
    /\ UNCHANGED run_persisted
    /\ UNCHANGED notRunVars

NextPipeline ==
    \/ StageTick
    \/ StageReturns
    \/ PipelineReturns
    \/ StageRaises
    \/ PipelineRestart

SpecPipeline == InitPipeline /\ [][NextPipeline]_vars

\* The wall-clock budget of a stage, in ticks.
StageBudget == 2

\* The stage that started last in this run, and the stages completed
\* before it.
LastStarted ==
    CHOOSE s \in DOMAIN run_input : \A t \in DOMAIN run_input : run_input[t] \subseteq run_input[s]

\* The artifact of the last fully completed stage: none, or the one of the
\* stage before the one that started last.
LastCheckpoint ==
    IF StageIndex(LastStarted) = 1 THEN << >>
    ELSE << Stages[StageIndex(LastStarted) - 1] >>

\* C19: a stage that exceeds its wall-clock budget fails the run; after a
\* failed run the persisted state is the artifact of the last fully
\* completed stage; and over the restarts no completed stage is run again,
\* so every stage completes at most once.
C19_BudgetAndCheckpoint ==
    /\ run_elapsed > StageBudget => run_pc = "raised"
    /\ run_pc = "raised" => run_persisted = LastCheckpoint
    /\ \A s \in StageSet : run_count[s].completed <= 1

\* The stages of process_pipeline in the order the data is to flow:
\* Normalizer, Deduplicator, Embedder, Clusterer, Keyword Tagger.
FlowOrder ==
    << "clean_data", "deduplicate_jobs", "generate_embeddings",
       "apply_clustering", "extract_keywords" >>

\* C20: stages run in the strict order of the data flow: a stage starts on
\* a batch only after every stage upstream of it has completed on that
\* batch; the Deduplicator's input has been through the Normalizer.
C20_StrictStageOrder ==
    \A i, j \in 1..Len(FlowOrder) :
        (i < j /\ FlowOrder[j] \in DOMAIN run_input)
            => FlowOrder[i] \in run_input[FlowOrder[j]]

(***************************************************************************)
(*        FURTHER CLAIMS ABOUT THE DEDUPLICATION PIPELINE                  *)
(***************************************************************************)

\* What the passes record about the rows they remove: each pass prints the
\* number of removed rows (removed_count) and nothing else, so the log of
\* (removed record, surviving record) entries stays empty.
audit_log == {}

\* The input records that are in the current frame.
PresentIds == { df[k].job_id : k \in 1..Len(df) }

\* C21: every record that left the batch has an audit-log entry, and after
\* all passes the target of every audit entry is a record of the output.
C21_RemovedRecordsAudited ==
    stage = "done" =>
        /\ \A j \in JobIds \ PresentIds :
              \E e \in audit_log : e.removed = j /\ e.survivor \in PresentIds
        /\ \A e \in audit_log : e.survivor \in PresentIds

\* C22: rule 4 of the classifier.  With a contract that is no student
\* contract, a title that matches a junior marker and no management or
\* senior marker is classified ENTRY, not MID.
C22_JuniorTitleIsEntry ==
    (cpc = "classified"
        /\ ~RuleMatches(1, title, contract_type)
        /\ JuniorSignal(title)
        /\ ~ManagementSignal(title)
        /\ ~SeniorSignal(title))
    => career_level = "ENTRY"

\* The members of group k of the fuzzy pass that share its maximum score.
TopScored(k) ==
    LET members == { fz_groups[k][m] : m \in 1..Len(fz_groups[k]) }
    IN  { p \in members :
            \A q \in members :
                TotalScore(FuzzyInput[q + 1], has_date)
                    <= TotalScore(FuzzyInput[p + 1], has_date) }

\* Of a set of rows of the fuzzy pass's frame: the one with the most recent
\* posted_date and, among those, the earliest in ingestion order.
MostRecentThenFirst(S) ==
    CHOOSE p \in S :
        \A q \in S :
            \/ ToDatetime(FuzzyInput[q + 1].posted_date)
                  < ToDatetime(FuzzyInput[p + 1].posted_date)
            \/ /\ ToDatetime(FuzzyInput[q + 1].posted_date)
                    = ToDatetime(FuzzyInput[p + 1].posted_date)
               /\ FuzzyInput[p + 1].job_id <= FuzzyInput[q + 1].job_id

\* C23: when several members of a DuplicateGroup share the maximum score,
\* the survivor is the one of them with the most recent posted_date and,
\* if that ties too, the one earliest in ingestion order.
C23_TieBreakByDateThenOrder ==
    stage = "fuzzy" =>
        \A k \in 1..Len(fz_groups) :
            Cardinality(TopScored(k)) >= 2
                => fz_best[k] = MostRecentThenFirst(TopScored(k))

\* The rows of the fuzzy pass's frame whose title is missing.
Untitled == { p \in 0..(Len(FuzzyInput) - 1) : FuzzyInput[p + 1].title = NaNText }

\* C24: a record whose title is missing never enters fuzzy matching: it is
\* in no candidate pair and in no DuplicateGroup of the fuzzy pass, and the
\* fuzzy pass does not remove it.
C24_UntitledBypassFuzzy ==
    stage = "fuzzy" =>
        /\ \A k \in 1..Len(fz_pairs) :
              fz_pairs[k][1] \notin Untitled /\ fz_pairs[k][2] \notin Untitled
        /\ \A k \in 1..Len(fz_groups) : \A m \in 1..Len(fz_groups[k]) :
              fz_groups[k][m] \notin Untitled
        /\ \A p \in Untitled : FuzzyInput[p + 1].job_id \in PresentIds

(***************************************************************************)
(* LOCATION PARSING: apply_location_standardization called on a record     *)
(* that has a location column.                                             *)
(***************************************************************************)
MaxLocationParts == 2

LocationWords ==
    { "Berlin", "Munich", "München", "Germany-wide", "Bayern", "Düsseldorf", "12", "DE" }

\* Location texts of n one-word parts with "/" or "," between them.
RECURSIVE LocationTextsOf(_)
LocationTextsOf(n) ==
    IF n = 1 THEN { << w >> : w \in LocationWords }
    ELSE { t \o << sep, w >> :
             t \in LocationTextsOf(n - 1), sep \in { "/", "," }, w \in LocationWords }

LocationTexts ==
    { NaNText } \cup UNION { LocationTextsOf(n) : n \in 1..MaxLocationParts }

InitLocation ==
    /\ call_args \in { ("location" :> t) : t \in LocationTexts }
    /\ call_result = << >>
    /\ call_pc = "called"
    /\ NotCallIdle

StandardizeLocation ==
    /\ call_pc = "called"
    /\ call_result' = apply_location_standardization(call_args)
    /\ call_pc' = "returned"
    /\ UNCHANGED call_args
    /\ UNCHANGED notCallVars

NextLocation == StandardizeLocation

SpecLocation == InitLocation /\ [][NextLocation]_vars

\* Names of single cities among the words of the location texts.
CityNames == { "Berlin", "Munich", "München", "Düsseldorf" }

\* A multi-city entry (two or more city names with "/" between them) or a
\* nationwide entry.
MultiCityOrNationwide(text) ==
    \/ text = << "Germany-wide" >>
    \/ /\ Len(text) >= 3
       /\ \A i \in 1..Len(text) :
             IF i % 2 = 1 THEN text[i] \in CityNames ELSE text[i] = "/"

\* C25: parsing a multi-city or nationwide location ('Berlin/Munich',
\* 'Germany-wide') leaves the location text as it was and sets city to
\* None: no single city is picked from the entry.
C25_MultiCityHasNoCity ==
    (call_pc = "returned" /\ MultiCityOrNationwide(call_args["location"]))
    =>  /\ call_result["location"] = call_args["location"]
        /\ call_result["city"] = NaNText

(***************************************************************************)
(*                FURTHER CLAIMS ABOUT THE CLUSTERING                      *)
(***************************************************************************)

\* The clusters that have no member under the labels fit_predict returned.
EmptyClusters == { c \in 0..(km_k - 1) : Members(km_labels, c) = {} }

\* C26: an empty cluster is recovered by re-seeding.  The run does not fail
\* over a cluster that is empty after convergence, and the result has
\* exactly k clusters, numbered 0..k-1, each with a member.
C26_EmptyClusterRecovered ==
    /\ (km_pc = "failed" /\ km_iter >= 1) => EmptyClusters = {}
    /\ km_pc = "done" =>
          /\ ClusterIds = 0..(km_k - 1)
          /\ \A c \in ClusterIds : \E i \in 1..Len(km_out) : km_out[i].cluster = c

(***************************************************************************)
(* SELECTION OF k (docs/data-analysis/clustering.md): JobClusterAnalyzer   *)
(* and determine_optimal_clusters, called twice on the same embeddings.    *)
(* KMeans(n_clusters=k, random_state=42, n_init=10) is a function of the   *)
(* points it is given: on the few points of a sample its restarts reach    *)
(* the partition of least inertia, and the seed settles equal inertias the *)
(* same way every time.  Points lie on a line in ascending order, so the   *)
(* clusters of that partition are runs of neighbours.                      *)
(***************************************************************************)
\* The sample limit, min(5000, len(embeddings)), and the k range (3, 12),
\* brought down to the size of the corpora checked.
SampleLimit == 5
MaxCorpus == 6
MaxSelectK == 4

\* The embeddings handed to determine_optimal_clusters.
Corpora ==
    UNION { { h \in [ 1..n -> 0..MaxCoord ] : \A i \in 1..(n - 1) : h[i] <= h[i + 1] }
            : n \in SampleLimit..MaxCorpus }

\* np.random.choice(len(embeddings), sample_size, replace=False) on the
\* global generator, which nothing seeds: any sample_size of the indices.
\* (The order of the sample does not matter to KMeans or to the scores.)
SampleIndexSets(embeddings) ==
    IF Len(embeddings) > SampleLimit
    THEN { S \in SUBSET (1..Len(embeddings)) : Cardinality(S) = SampleLimit }
    ELSE { 1..Len(embeddings) }

SampleOf(embeddings, S) ==
    LET order == SortedSeq(S)
    IN  [ i \in 1..Len(order) |-> embeddings[order[i]] ]

\* The places where a cluster can end: between two different neighbours.
CutPlaces(X) == { i \in 1..(Len(X) - 1) : X[i] # X[i + 1] }

\* The labels of the partition that cuts X after the positions of cuts.
LabelsOfCuts(X, cuts) ==
    [ i \in 1..Len(X) |-> Cardinality({ c \in cuts : c < i }) ]

RECURSIVE Gcd(_, _)
Gcd(a, b) == IF b = 0 THEN a ELSE Gcd(b, a % b)

Lcm(a, b) == (a * b) \div Gcd(a, b)

RECURSIVE LcmUpTo(_)
LcmUpTo(n) == IF n <= 1 THEN 1 ELSE Lcm(n, LcmUpTo(n - 1))

\* inertia_ of a labelling, times LcmUpTo(Len(X)): per cluster the sum of
\* the squared distances to the mean is the sum over its pairs of points of
\* the squared distance, divided by its size.
ScaledInertia(X, labels) ==
    LET L == LcmUpTo(Len(X))
        used == { labels[i] : i \in 1..Len(X) }
        pairs(c) == { p \in Members(labels, c) \X Members(labels, c) : p[1] < p[2] }
        within(c) == SumOver(pairs(c),
                        [ p \in pairs(c) |-> (X[p[1]] - X[p[2]]) * (X[p[1]] - X[p[2]]) ])
    IN  SumOver(used, [ c \in used |-> within(c) * (L \div Cardinality(Members(labels, c))) ])

\* A set of cut positions comes before another when its smallest position
\* that the other does not have is the smaller one.
CutsBefore(a, b) ==
    a = b \/ \E i \in a \ b : \A j \in b \ a : i < j

\* KMeans(n_clusters=k, random_state=42, n_init=10).fit_predict(X)
fit_predict(X, k) ==
    LET places == CutPlaces(X)
        n_cuts == IF Cardinality(places) < k - 1 THEN Cardinality(places) ELSE k - 1
        cands  == { c \in SUBSET places : Cardinality(c) = n_cuts }
        best   == { c \in cands :
                      \A d \in cands :
                          ScaledInertia(X, LabelsOfCuts(X, c))
                              <= ScaledInertia(X, LabelsOfCuts(X, d)) }
    IN  LabelsOfCuts(X, CHOOSE c \in best : \A d \in best : CutsBefore(c, d))

\* A fraction num/den, den > 0, in lowest terms.
Fraction(num, den) ==
    LET g == Gcd(Abs(num), den)
    IN  IF num = 0 THEN [ num |-> 0, den |-> 1 ] ELSE [ num |-> num \div g, den |-> den \div g ]

FracAdd(a, b) == Fraction(a.num * b.den + b.num * a.den, a.den * b.den)

FracLess(a, b) == a.num * b.den < b.num * a.den

RECURSIVE FracSum(_, _)
FracSum(f, i) == IF i = 0 THEN Fraction(0, 1) ELSE FracAdd(f[i], FracSum(f, i - 1))

\* Sum of the distances of point i to the points of cluster c.
DistSum(X, labels, i, c) ==
    SumOver(Members(labels, c), [ q \in Members(labels, c) |-> Abs(X[i] - X[q]) ])

\* The silhouette coefficient of sample i: (b - a) / max(a, b) with a the
\* mean distance to the other points of its cluster and b the least mean
\* distance to the points of another cluster; 0 for a cluster of one and
\* for 0/0.
SilhouetteOf(X, labels, i) ==
    LET own    == Members(labels, labels[i])
        others == { labels[q] : q \in 1..Len(X) } \ { labels[i] }
        a == Fraction(DistSum(X, labels, i, labels[i]),
                      IF Cardinality(own) > 1 THEN Cardinality(own) - 1 ELSE 1)
        bof(c) == Fraction(DistSum(X, labels, i, c), Cardinality(Members(labels, c)))
        bc == CHOOSE c \in others : \A d \in others : ~FracLess(bof(d), bof(c))
        b == bof(bc)
        m == IF FracLess(a, b) THEN b ELSE a
    IN  IF Cardinality(own) = 1 \/ m.num = 0 THEN Fraction(0, 1)
        ELSE Fraction((b.num * a.den - a.num * b.den) * m.den, a.den * b.den * m.num)

\* silhouette_score(X, labels) times the number of samples.
SilhouetteSum(X, labels) ==
    FracSum([ i \in 1..Len(X) |-> SilhouetteOf(X, labels, i) ], Len(X))

\* find_optimal_k raises when one of its KMeans fits or scores raises.
SelectionRaises(X) ==
    \E k \in min_k..MaxSelectK : Len(X) < k \/ ~ScoresDefined(fit_predict(X, k))

\* np.argmax(silhouette_scores) + 3: the first k with the highest score.
optimal_k_of(X) ==
    CHOOSE k \in min_k..MaxSelectK :
        /\ \A j \in min_k..MaxSelectK :
              ~FracLess(SilhouetteSum(X, fit_predict(X, k)),
                        SilhouetteSum(X, fit_predict(X, j)))
        /\ \A j \in min_k..(k - 1) :
              FracLess(SilhouetteSum(X, fit_predict(X, j)),
                       SilhouetteSum(X, fit_predict(X, k)))

InitSelection ==
    /\ call_args \in Corpora
    /\ call_result = << >>
    /\ call_pc = "called"
    /\ NotCallIdle

\* determine_optimal_clusters(embeddings) returns optimal_k; the labels of
\* the run are those of KMeans with optimal_k on all the embeddings.
DetermineOptimalClusters ==
    /\ call_pc \in { "called", "once" }
    /\ \E S \in SampleIndexSets(call_args) :
          LET sample_embeddings == SampleOf(call_args, S)
          IN  /\ ~SelectionRaises(sample_embeddings)
              /\ LET optimal_k == optimal_k_of(sample_embeddings)
                 IN  call_result' = Append(call_result,
                        [ sample |-> S,
                          optimal_k |-> optimal_k,
                          labels |-> fit_predict(call_args, optimal_k) ])
    /\ call_pc' = IF call_pc = "called" THEN "once" ELSE "twice"
    /\ UNCHANGED call_args
    /\ UNCHANGED notCallVars

\* determine_optimal_clusters(embeddings) raises the ValueError of a fit or
\* of a score.
DetermineOptimalClustersRaises ==
    /\ call_pc \in { "called", "once" }
    /\ \E S \in SampleIndexSets(call_args) : SelectionRaises(SampleOf(call_args, S))
    /\ call_pc' = "raised"
    /\ UNCHANGED << call_args, call_result >>
    /\ UNCHANGED notCallVars

NextSelection == DetermineOptimalClusters \/ DetermineOptimalClustersRaises

SpecSelection == InitSelection /\ [][NextSelection]_vars

\* C27: clustering is reproducible.  Two runs on the same corpus with the
\* same seed select the same k and give every record the same cluster,
\* also when the corpus is larger than the sample size.
C27_ReproducibleClustering ==
    call_pc = "twice" =>
        /\ call_result[1].optimal_k = call_result[2].optimal_k
        /\ call_result[1].labels = call_result[2].labels

\* The fields of a row, without its index label.
FieldsOf(row) == KeyOf(row, Columns(has_date) \cup { "job_id" })

\* The positions of the fuzzy pass's frame that are in some DuplicateGroup.
Grouped == UNION { { fz_groups[k][m] : m \in 1..Len(fz_groups[k]) } : k \in 1..Len(fz_groups) }

\* The rows of the fuzzy pass's frame that are in its output.
KeptByFuzzy == { p \in 0..(Len(FuzzyInput) - 1) : FuzzyInput[p + 1].job_id \in PresentIds }

\* What remove_fuzzy_duplicates is to leave: of every DuplicateGroup exactly
\* one member, every record that is in no group with all its fields
\* unchanged, only rows of its input, and one row per group and one per
\* ungrouped record.
OnePerGroupAndUngrouped ==
    /\ \A k \in 1..Len(fz_groups) :
          Cardinality({ m \in 1..Len(fz_groups[k]) : fz_groups[k][m] \in KeptByFuzzy }) = 1
    /\ \A p \in (0..(Len(FuzzyInput) - 1)) \ Grouped :
          \E r \in 1..Len(df) : FieldsOf(df[r]) = FieldsOf(FuzzyInput[p + 1])
    /\ \A r \in 1..Len(df) :
          \E p \in 0..(Len(FuzzyInput) - 1) : FieldsOf(df[r]) = FieldsOf(FuzzyInput[p + 1])
    /\ Len(df) = Len(fz_groups) + Len(FuzzyInput) - Cardinality(Grouped)

\* C28: every call of remove_fuzzy_duplicates ends with a frame that has,
\* of each DuplicateGroup, exactly one survivor, and every ungrouped record
\* unchanged: the output is a subset of the input with one record per group
\* plus all ungrouped records.
C28_FuzzyKeepsOnePerGroup ==
    stage \in { "fuzzy", "failed" } => stage = "fuzzy" /\ OnePerGroupAndUngrouped

\* The part of C28 that the code does meet: a call that returns leaves one
\* record per group and all ungrouped records.
FuzzyReturnKeepsOnePerGroup == stage = "fuzzy" => OnePerGroupAndUngrouped

\* C29: after complete_deduplication_pipeline on a batch that has a
\* posted_date column, no two records of the output have the same
\* (title, company, location).
C29_OutputKeysUnique ==
    (stage = "done" /\ has_date) =>
        \A a, b \in 1..Len(df) :
            KeyOf(df[a], TemporalKey) = KeyOf(df[b], TemporalKey) => a = b

\* C29 witness: the pipeline ended on a dated batch of three records, two
\* of them with the same (title, company, location) and different dates;
\* two records with different keys are left.
C29_Witness ==
    /\ stage = "done"
    /\ has_date
    /\ Len(input_df) = 3
    /\ SameKey(0) = { 0, 1 }
    /\ InputRow(0).posted_date # InputRow(1).posted_date
    /\ Len(df) = 2
    /\ KeyOf(df[1], TemporalKey) # KeyOf(df[2], TemporalKey)

\* The records of a set that have a valid posted_date.
Dated(S) == { i \in S : ToDatetime(InputRow(i).posted_date) # 0 }

\* C30: a missing or unparseable posted_date never makes
\* handle_temporal_duplicates fail: the call always has a frame to return;
\* of the records sharing (title, company, location) exactly one is kept,
\* also when none of them has a valid date, and it is one with a valid date
\* when there is one; without the date column the frame is returned
\* unchanged.
C30_MissingDatesTolerated ==
    /\ (stage = "temporal_call" /\ has_date) => TemporalOutcomes(df) # {}
    /\ (stage = "temporal_returned" /\ ~has_date) => df = input_df
    /\ (stage = "temporal_returned" /\ has_date) =>
          \A j \in JobIds :
              /\ Present(SameKey(j)) = 1
              /\ Dated(SameKey(j)) # {} => Present(Dated(SameKey(j))) = 1

\* C30 witness: the pass returned on a dated frame where record 0 has no
\* date and record 1, with the same key, has one, and record 2, with a key
\* of its own, has a date that cannot be parsed; records 1 and 2 are left,
\* the date of record 2 coerced to NaT.
C30_Witness ==
    /\ stage = "temporal_returned"
    /\ has_date
    /\ Len(input_df) = 3
    /\ SameKey(0) = { 0, 1 }
    /\ InputRow(0).posted_date = 0
    /\ InputRow(1).posted_date > 0
    /\ InputRow(2).posted_date < 0
    /\ Len(df) = 2
    /\ df[1].job_id = 1
    /\ df[2].job_id = 2
    /\ df[2].posted_date = 0

====
